---- MODULE Spec2Model ----
(***************************************************************************)
(* A model of chaba's persistent state store (src/core/state.rs), its port *)
(* allocator (src/core/port.rs), the sandbox setup (src/core/sandbox.rs)   *)
(* and the worktree lifecycle (src/core/worktree.rs).                      *)
(*                                                                         *)
(* Several tool invocations (processes) run against one state file.  Every *)
(* point where the code touches the file system or waits for a subprocess  *)
(* is a separate step, so that other processes can interleave there.       *)
(*                                                                         *)
(* Option<T> values are sequences: <<>> is None and <<x>> is Some(x).      *)
(* created_at (a wall-clock reading) is left out of the records.           *)
(***************************************************************************)
EXTENDS Integers, Sequences, FiniteSets, TLC

\* ------------------------------------------------------------- bounds
NumProcs == 2
NumPRs == 2
MaxVersion == 2
PortCount == 2

\* ------------------------------------------------- program constants
RangeStart == 3000

RangeEnd == RangeStart + PortCount - 1

Procs == 1..NumProcs
PRs == 1..NumPRs
PortRange == RangeStart..RangeEnd
ProjectTypes == {"Rust"}

VARIABLES
  disk,   \* ~/.chaba/state.yaml: the content of the target file
  tmp,    \* per process, the NamedTempFile of a save in progress
  mem,    \* per process, the State value it holds in memory
  pc,     \* per process, the position in the running command
  cmd,    \* per process, the command being run and what it has done
  res,    \* per process, the Result the command (or its failing call) returned
  wt,     \* the worktree paths that exist on the file system
  pin,    \* port allocator harness: the inputs of one assign_port call
  pout,   \* port allocator harness: the result of that call
  run     \* one run_review call: its configuration, tasks and subprocesses

vars == <<disk, tmp, mem, pc, cmd, res, wt, pin, pout, run>>
storeVars == <<disk, tmp, mem, pc, cmd, res, wt>>
portVars == <<pin, pout>>

\* ------------------------------------------------------ file contents
NoFile == [kind |-> "none"]
PartialFile == [kind |-> "partial"]
CorruptFile == [kind |-> "corrupt"]

None == <<>>
Some(x) == <<x>>

BranchOf(pr) == <<"branch", pr>>
PathOf(pr) == <<"base_dir", pr>>

\* State::default()
DefaultState == [version |-> 0, reviews |-> <<>>]

\* serde's view of one ReviewState: Option::None and an empty Vec are skipped
SerializeReview(r) ==
  [pr_number |-> r.pr_number, branch |-> r.branch,
   worktree_path |-> r.worktree_path,
   deps_installed |-> r.deps_installed, env_copied |-> r.env_copied]
  @@ (IF r.port = None THEN <<>> ELSE [port |-> r.port[1]])
  @@ (IF r.project_type = None THEN <<>> ELSE [project_type |-> r.project_type[1]])
  @@ (IF r.agent_analyses = <<>> THEN <<>> ELSE [agent_analyses |-> r.agent_analyses])

\* serde's reading of one record: absent fields take their defaults
DeserializeReview(y) ==
  [pr_number |-> y.pr_number, branch |-> y.branch,
   worktree_path |-> y.worktree_path,
   port |-> IF "port" \in DOMAIN y THEN Some(y.port) ELSE None,
   project_type |-> IF "project_type" \in DOMAIN y THEN Some(y.project_type) ELSE None,
   deps_installed |-> IF "deps_installed" \in DOMAIN y THEN y.deps_installed ELSE FALSE,
   env_copied |-> IF "env_copied" \in DOMAIN y THEN y.env_copied ELSE FALSE,
   agent_analyses |-> IF "agent_analyses" \in DOMAIN y THEN y.agent_analyses ELSE <<>>]

\* serde_yaml::to_string(&self)
Serialize(st) ==
  [kind |-> "yaml", version |-> st.version,
   reviews |-> [i \in DOMAIN st.reviews |-> SerializeReview(st.reviews[i])]]

\* serde_yaml::from_str::<State> succeeds on this content
Readable(f) == f.kind = "yaml"

\* from_str that takes an absent version for the first version
DeserializeVersionOne(f) ==
  [version |-> IF "version" \in DOMAIN f THEN f.version ELSE 1,
   reviews |-> [i \in DOMAIN f.reviews |-> DeserializeReview(f.reviews[i])]]

\* serde_yaml::from_str::<State>(&content), for a Readable file
Deserialize(f) ==
  [version |-> IF "version" \in DOMAIN f THEN f.version ELSE 0,
   reviews |-> [i \in DOMAIN f.reviews |-> DeserializeReview(f.reviews[i])]]

\* ----------------------------------------------------- State helpers
\* add_review that pushes without the retain
AddReviewNoRetain(st, r) == [st EXCEPT !.reviews = Append(st.reviews, r)]

\* add_review that keeps a record already held for that number
AddReviewKeepOld(st, r) ==
  IF \E i \in DOMAIN st.reviews : st.reviews[i].pr_number = r.pr_number
    THEN st
    ELSE [st EXCEPT !.reviews = Append(st.reviews, r)]

\* the in-memory part of add_review: retain, then push
AddReviewMem(st, r) ==
  [st EXCEPT !.reviews =
     Append(SelectSeq(st.reviews, LAMBDA x : x.pr_number # r.pr_number), r)]

\* the in-memory part of remove_review
RemoveReviewMem(st, i) ==
  [st EXCEPT !.reviews = SelectSeq(st.reviews, LAMBDA x : x.pr_number # i)]

\* get_review: the first record of that number, as an Option
GetReview(st, i) ==
  LET hits == SelectSeq(st.reviews, LAMBDA x : x.pr_number = i)
  IN IF hits = <<>> THEN None ELSE Some(Head(hits))

\* ------------------------------------------------------ port allocator
UsedPorts(st) ==
  {st.reviews[i].port[1] : i \in {j \in DOMAIN st.reviews : st.reviews[j].port # None}}

RECURSIVE ScanPorts(_, _, _, _)
\* the for loop of assign_port from `port` on; bound: the ports is_port_in_use reports
ScanPorts(port, last, used, bound) ==
  IF port > last THEN None
  ELSE IF port \notin used /\ port \notin bound THEN Some(port)
  ELSE ScanPorts(port + 1, last, used, bound)

\* assign_port without the used_ports test
AssignPortIgnoreUsed(st, first, last, bound) ==
  LET hit == ScanPorts(first, last, {}, bound)
  IN IF hit # None
       THEN [ok |-> TRUE, port |-> hit[1]]
       ELSE [ok |-> FALSE, error |-> "NoAvailablePort",
             range_start |-> first, range_end |-> last]

\* assign_port that scans the range from its upper end
AssignPortDescending(st, first, last, bound) ==
  LET free == {q \in first..last : q \notin UsedPorts(st) /\ q \notin bound}
  IN IF free # {}
       THEN [ok |-> TRUE, port |-> CHOOSE q \in free : \A r \in free : r <= q]
       ELSE [ok |-> FALSE, error |-> "NoAvailablePort",
             range_start |-> first, range_end |-> last]

\* assign_port (port.rs 21-40)
AssignPort(st, first, last, bound) ==
  LET hit == ScanPorts(first, last, UsedPorts(st), bound)
  IN IF hit # None
       THEN [ok |-> TRUE, port |-> hit[1]]
       ELSE [ok |-> FALSE, error |-> "NoAvailablePort",
             range_start |-> first, range_end |-> last]

\* setup that hands assign_port an empty State instead of the loaded one
SandboxPortEmptyState(st, enabled, bound) ==
  IF enabled
    THEN LET a == AssignPort([version |-> 0, reviews |-> <<>>], RangeStart, RangeEnd, bound)
         IN IF a.ok THEN Some(a.port) ELSE None
    ELSE None

\* step 4 of SandboxManager::setup: the port of the new record
SandboxPort(st, enabled, bound) ==
  IF enabled
    THEN LET a == AssignPort(st, RangeStart, RangeEnd, bound)
         IN IF a.ok THEN Some(a.port) ELSE None
    ELSE None

\* --------------------------------------------------------------- Init
\* path: the validated worktree path of a create;
\* consent: what the cleanup command has for the removal ("force",
\* "confirmed", "declined", or "none" when it did not ask);
\* wtAdded: add_worktree has succeeded; replaced: add_review found a record
\* of the same number; raced: the load ran while a save of another process
\* was between its check and its rename; overwrite: how create treated a
\* target path that already existed ("none" when it did not exist).
\* setup: the configuration and the step outcomes the sandbox setup ran
\* with.  replaced, raced, overwrite and setup are history only
NoSetup == [ran |-> FALSE]
IdleCmd == [op |-> "none", pr |-> 0, wtAdded |-> FALSE, replaced |-> FALSE,
            raced |-> FALSE, overwrite |-> "none", setup |-> NoSetup,
            path |-> None, consent |-> "none"]
NoRes == [kind |-> "none"]
Err(k) == [kind |-> k]

InitStore ==
  /\ disk = NoFile
  /\ tmp = [p \in Procs |-> NoFile]
  /\ mem = [p \in Procs |-> DefaultState]
  /\ pc = [p \in Procs |-> "idle"]
  /\ cmd = [p \in Procs |-> IdleCmd]
  /\ res = [p \in Procs |-> NoRes]
  /\ wt = {}

NoPortIn == [reviews |-> <<>>, first |-> 0, last |-> 0, bound |-> {}]
NoPortOut == [ok |-> FALSE, error |-> "none"]

\* no run_review call
NoRun == [phase |-> "none"]

Init == InitStore /\ pin = NoPortIn /\ pout = NoPortOut /\ run = NoRun

\* the locals of a command that has taken no step yet
NewCmd(op, pr) == [IdleCmd EXCEPT !.op = op, !.pr = pr]

\* a save of another process is in progress
SaveInProgress(p) == \E q \in Procs \ {p} : pc[q] = "rename"

\* a command ends: its Result is set, its State value and the rest of its
\* locals are dropped, and the process is at "done"
Return(p, r) ==
  /\ res' = [res EXCEPT ![p] = r]
  /\ pc' = [pc EXCEPT ![p] = "done"]
  /\ mem' = [mem EXCEPT ![p] = DefaultState]
  /\ cmd' = [cmd EXCEPT ![p] = [NewCmd(cmd[p].op, 0) EXCEPT !.setup = cmd[p].setup]]

\* ------------------------------------------------------ WorktreeManager
\* create, fetch_branch and add_worktree (worktree.rs 161-172); path is the
\* validated worktree path
CreateFetchAdd(p, pr, path) ==
  \E fetchOk \in BOOLEAN, addOk \in BOOLEAN :
    IF fetchOk /\ addOk
      THEN /\ wt' = wt \cup {path}
           /\ cmd' = [cmd EXCEPT ![p] = [NewCmd("create", pr) EXCEPT
                                           !.wtAdded = TRUE, !.path = Some(path)]]
           /\ pc' = [pc EXCEPT ![p] = "load"]
           /\ UNCHANGED res
      ELSE /\ wt' = wt \ {path}
           /\ res' = [res EXCEPT ![p] = Err("GitError")]
           /\ pc' = [pc EXCEPT ![p] = "done"]
           /\ cmd' = [cmd EXCEPT ![p] = NewCmd("create", 0)]

\* create ends before add_worktree with the error r; how: what it did about
\* an existing target path
CreateFail(p, r, how) ==
  /\ res' = [res EXCEPT ![p] = r]
  /\ pc' = [pc EXCEPT ![p] = "done"]
  /\ cmd' = [cmd EXCEPT ![p] = [NewCmd("create", 0) EXCEPT !.overwrite = how]]

\* create asks nothing and removes the existing worktree before it fails
CreateDeclinedAfterRemoval(p, path) ==
  /\ CreateFail(p, [kind |-> "WorktreeExists", path |-> path], "declined")
  /\ wt' = wt \ {path}

\* create, the overwrite prompt was declined (worktree.rs 155-157)
CreateDeclined(p, path) ==
  /\ CreateFail(p, [kind |-> "WorktreeExists", path |-> path], "declined")
  /\ UNCHANGED wt

\* tokio::fs::remove_dir_all(path) (worktree.rs 138, 154): an error when
\* the path does not exist
RemoveDirAll(dirs, path) ==
  IF path \in dirs THEN [ok |-> TRUE, dirs |-> dirs \ {path}]
  ELSE [ok |-> FALSE, error |-> "IoError"]

\* create, removal of the existing worktree under force or after a
\* confirmed prompt (worktree.rs 137-138, 153-154).  `git worktree remove
\* --force` (git.rs 137-167) either fails or deletes the registration
\* together with the directory; remove_dir_all then runs on what is left.
CreateOverwrite(p, pr, path, how) ==
  \E rmOk \in BOOLEAN :
    IF ~rmOk
      THEN CreateFail(p, Err("GitError"), how) /\ UNCHANGED wt
      ELSE LET d == RemoveDirAll(wt \ {path}, path)
           IN IF d.ok
                THEN CreateFetchAdd(p, pr, path)
                ELSE /\ wt' = wt \ {path}
                     /\ CreateFail(p, Err(d.error), how)

\* create, from the test for an existing target path up to and including
\* add_worktree (worktree.rs 133-172); confirm: the answer to the
\* overwrite prompt
CreateAt(p, pr, path) ==
  IF path \notin wt THEN CreateFetchAdd(p, pr, path)
  ELSE \E force \in BOOLEAN, confirm \in BOOLEAN :
    IF force THEN CreateOverwrite(p, pr, path, "forced")
    ELSE IF confirm THEN CreateOverwrite(p, pr, path, "confirmed")
    ELSE CreateDeclined(p, path)

\* create that removes what is at the target path before it looks at the
\* outcome of the validation
CreateWorktreeValidateLate(p) ==
  /\ pc[p] = "idle"
  /\ \E pre \in {"ok", "InvalidInput", "PrNotFound", "ConfigError"}, pr \in PRs :
       IF pre # "ok"
         THEN CreateFail(p, Err(pre), "none") /\ wt' = wt \ {PathOf(pr)}
         ELSE CreateAt(p, pr, PathOf(pr))
  /\ UNCHANGED <<disk, tmp, mem, portVars, run>>

\* create without custom_path, up to and including add_worktree
\* (worktree.rs 106-172): the path is the naming template under base_dir.
\* pre: the outcome of the argument match, of get_pr_branch and of
\* validate_path_secure
CreateWorktree(p) ==
  /\ pc[p] = "idle"
  /\ \E pre \in {"ok", "InvalidInput", "PrNotFound", "ConfigError"} :
       IF pre # "ok" THEN CreateFail(p, Err(pre), "none") /\ UNCHANGED wt
       ELSE \E pr \in PRs : CreateAt(p, pr, PathOf(pr))
  /\ UNCHANGED <<disk, tmp, mem, portVars, run>>

\* create with custom_path (worktree.rs 122-125), up to and including
\* add_worktree: the caller names any path under base_dir, here the place
\* the template gives to some identifier
CreateCustom(p) ==
  /\ pc[p] = "idle"
  /\ \E pre \in {"ok", "InvalidInput", "PrNotFound", "ConfigError"} :
       IF pre # "ok" THEN CreateFail(p, Err(pre), "none") /\ UNCHANGED wt
       ELSE \E pr \in PRs, other \in PRs : CreateAt(p, pr, PathOf(other))
  /\ UNCHANGED <<disk, tmp, mem, portVars, run>>

\* ---------------------------------------------------------- State::load
\* what State::load returns (state.rs 48-64).  The exists() test and the
\* read are one step: the target file is never deleted, so a read that
\* follows a positive test returns what a load running wholly at the time
\* of the read returns.
LoadResult(f) ==
  IF f = NoFile THEN [ok |-> TRUE, state |-> DefaultState]
  ELSE IF Readable(f) THEN [ok |-> TRUE, state |-> Deserialize(f)]
  ELSE [ok |-> FALSE, error |-> "SerdeError"]

\* the ReviewState of a setup whose dependency installation always counts
\* as done when it is enabled
NewReviewDepsAlways(st, pr, cfg, ptype, depsOk, envOk, bound) ==
  [pr_number |-> pr,
   branch |-> BranchOf(pr),
   worktree_path |-> PathOf(pr),
   port |-> SandboxPort(st, cfg.port_enabled, bound),
   project_type |-> Some(ptype),
   deps_installed |-> cfg.auto_install_deps,
   env_copied |-> cfg.copy_env_from_main /\ envOk,
   agent_analyses |-> <<>>]

\* the ReviewState create builds from the SandboxInfo (worktree.rs 182-192,
\* sandbox.rs 31-96).  cfg: the SandboxConfig; depsOk, envOk: whether
\* install_dependencies and copy_env_files succeed when they are run
NewReview(st, pr, cfg, ptype, depsOk, envOk, bound) ==
  [pr_number |-> pr,
   branch |-> BranchOf(pr),
   worktree_path |-> PathOf(pr),
   port |-> SandboxPort(st, cfg.port_enabled, bound),
   project_type |-> Some(ptype),
   deps_installed |-> cfg.auto_install_deps /\ depsOk,
   env_copied |-> cfg.copy_env_from_main /\ envOk,
   agent_analyses |-> <<>>]

\* create, from State::load to the in-memory part of add_review
\* (worktree.rs 175-195, state.rs 131-132).  The sandbox setup works on the
\* new worktree and on the loaded State only, so it is taken in the same
\* step as the load; the save that follows is a later step.
CreateSetup(p, configs) ==
  /\ pc[p] = "load"
  /\ cmd[p].op = "create"
  /\ LET l == LoadResult(disk)
     IN IF ~l.ok
          THEN Return(p, Err(l.error))
          ELSE \E cfg \in configs, ptype \in ProjectTypes, bound \in SUBSET PortRange :
               \E depsOk \in (IF cfg.auto_install_deps THEN BOOLEAN ELSE {FALSE}),
                  envOk \in (IF cfg.copy_env_from_main THEN BOOLEAN ELSE {FALSE}) :
                 LET review == [NewReview(l.state, cmd[p].pr, cfg, ptype, depsOk,
                                          envOk, bound)
                                  EXCEPT !.worktree_path = cmd[p].path[1]]
                 IN /\ mem' = [mem EXCEPT ![p] = AddReviewMem(l.state, review)]
                    /\ cmd' = [cmd EXCEPT ![p] =
                                 [@ EXCEPT !.replaced =
                                    GetReview(l.state, cmd[p].pr) # None,
                                           !.raced = SaveInProgress(p),
                                           !.setup =
                                    [ran |-> TRUE, cfg |-> cfg,
                                     depsOk |-> depsOk, envOk |-> envOk,
                                     portOk |-> AssignPort(l.state, RangeStart,
                                                           RangeEnd, bound).ok]]
                                 @@ [review |-> review]]
                    /\ pc' = [pc EXCEPT ![p] = "save"]
                    /\ UNCHANGED res
  /\ UNCHANGED <<disk, tmp, wt, portVars, run>>

\* ---------------------------------------------------------- State::save
\* save without the version check
SaveCheckUnchecked(p) ==
  /\ pc[p] = "save"
  /\ mem[p].version < MaxVersion
  /\ mem' = [mem EXCEPT ![p].version = @ + 1]
  /\ tmp' = [tmp EXCEPT ![p] = Serialize(mem'[p])]
  /\ pc' = [pc EXCEPT ![p] = "rename"]
  /\ UNCHANGED <<res, cmd, disk, wt, portVars, run>>

\* save that writes the target file in place: the write, which is not
\* atomic, has begun on the target when the step ends
SaveCheckInPlace(p) ==
  /\ pc[p] = "save"
  /\ mem[p].version < MaxVersion
  /\ IF disk # NoFile /\ Readable(disk) /\ Deserialize(disk).version # mem[p].version
       THEN /\ Return(p, [kind |-> "StateConflict",
                          expected |-> mem[p].version,
                          actual |-> Deserialize(disk).version])
            /\ UNCHANGED <<tmp, disk>>
       ELSE /\ mem' = [mem EXCEPT ![p].version = @ + 1]
            /\ disk' = PartialFile
            /\ tmp' = [tmp EXCEPT ![p] = Serialize(mem'[p])]
            /\ pc' = [pc EXCEPT ![p] = "rename"]
            /\ UNCHANGED <<res, cmd>>
  /\ UNCHANGED <<wt, portVars, run>>

\* save, up to the written temp file (state.rs 68-117): the version check,
\* the increment, and the temp file created next to the target, written and
\* its mode set; any of the file calls may fail
SaveCheck(p) ==
  /\ pc[p] = "save"
  /\ mem[p].version < MaxVersion
  /\ IF disk # NoFile /\ Readable(disk) /\ Deserialize(disk).version # mem[p].version
       THEN /\ Return(p, [kind |-> "StateConflict",
                          expected |-> mem[p].version,
                          actual |-> Deserialize(disk).version])
            /\ UNCHANGED tmp
       ELSE \/ /\ mem' = [mem EXCEPT ![p].version = @ + 1]
               /\ tmp' = [tmp EXCEPT ![p] = Serialize(mem'[p])]
               /\ pc' = [pc EXCEPT ![p] = "rename"]
               /\ UNCHANGED <<res, cmd>>
            \/ /\ Return(p, Err("IoError"))
               /\ UNCHANGED tmp
  /\ UNCHANGED <<disk, wt, portVars, run>>

\* save, persist(): the rename of the temp file over the target
\* (state.rs 121-125); the caller (create or remove) then returns Ok
SaveRename(p) ==
  /\ pc[p] = "rename"
  /\ disk' = tmp[p]
  /\ tmp' = [tmp EXCEPT ![p] = NoFile]
  /\ Return(p, [kind |-> "Ok", version |-> mem[p].version,
                replaced |-> cmd[p].replaced])
  /\ UNCHANGED <<wt, portVars, run>>

\* ------------------------------------------------ WorktreeManager::remove
\* remove that deletes the worktree directory of the identifier before it
\* looks the identifier up
RemoveLoadDeleteFirst(p) ==
  /\ pc[p] = "idle"
  /\ \E pr \in PRs :
       LET l == LoadResult(disk)
       IN IF l.ok /\ GetReview(l.state, pr) # None
            THEN /\ mem' = [mem EXCEPT ![p] = l.state]
                 /\ cmd' = [cmd EXCEPT ![p] = NewCmd("remove", pr)]
                 /\ pc' = [pc EXCEPT ![p] = "rm_git"]
                 /\ UNCHANGED <<res, wt>>
            ELSE /\ res' = [res EXCEPT ![p] = [kind |-> "WorktreeNotFound", pr |-> pr]]
                 /\ pc' = [pc EXCEPT ![p] = "done"]
                 /\ cmd' = [cmd EXCEPT ![p] = NewCmd("remove", 0)]
                 /\ wt' = wt \ {PathOf(pr)}
                 /\ UNCHANGED mem
  /\ UNCHANGED <<disk, tmp, portVars, run>>

\* remove that drops the record also when the git removal failed
RemoveGitDropAnyway(p) ==
  /\ pc[p] = "rm_git"
  /\ \E rmOk \in BOOLEAN :
       /\ wt' = IF rmOk THEN wt \ {GetReview(mem[p], cmd[p].pr)[1].worktree_path}
                ELSE wt
       /\ mem' = [mem EXCEPT ![p] = RemoveReviewMem(mem[p], cmd[p].pr)]
       /\ pc' = [pc EXCEPT ![p] = "save"]
       /\ UNCHANGED <<res, cmd>>
  /\ UNCHANGED <<disk, tmp, portVars, run>>

\* remove, State::load and the lookup of pr (worktree.rs 201-207)
RemoveLookup(p, pr) ==
  LET l == LoadResult(disk)
      fail(r) == /\ res' = [res EXCEPT ![p] = r]
                 /\ pc' = [pc EXCEPT ![p] = "done"]
                 /\ cmd' = [cmd EXCEPT ![p] = NewCmd("remove", 0)]
                 /\ UNCHANGED mem
  IN IF ~l.ok THEN fail(Err(l.error))
     ELSE IF GetReview(l.state, pr) = None
       THEN fail([kind |-> "WorktreeNotFound", pr |-> pr])
     ELSE /\ mem' = [mem EXCEPT ![p] = l.state]
          /\ cmd' = [cmd EXCEPT ![p] =
                       [NewCmd("remove", pr) EXCEPT
                          !.raced = SaveInProgress(p),
                          !.consent = cmd[p].consent]]
          /\ pc' = [pc EXCEPT ![p] = "rm_git"]
          /\ UNCHANGED res

\* remove as the cleanup command runs it once it has force or the
\* confirmation (cleanup.rs 36, worktree.rs 201-207)
RemoveLoad(p) ==
  /\ pc[p] = "idle"
  /\ \E pr \in PRs : RemoveLookup(p, pr)
  /\ UNCHANGED <<disk, tmp, wt, portVars, run>>

\* the cleanup command, from State::load to the answer to the prompt
\* (cleanup.rs 8-34): the prompt is shown when the loaded store has a
\* record of pr and force is not given
CleanupConfirm(p) ==
  /\ pc[p] = "idle"
  /\ \E pr \in PRs, force \in BOOLEAN :
       LET l == LoadResult(disk)
           goOn(consent) ==
             /\ cmd' = [cmd EXCEPT ![p] =
                          [NewCmd("remove", pr) EXCEPT !.consent = consent]]
             /\ pc' = [pc EXCEPT ![p] = "cleanup"]
             /\ UNCHANGED res
       IN IF ~l.ok
            THEN /\ res' = [res EXCEPT ![p] = Err(l.error)]
                 /\ pc' = [pc EXCEPT ![p] = "done"]
                 /\ cmd' = [cmd EXCEPT ![p] = NewCmd("remove", 0)]
          ELSE IF GetReview(l.state, pr) = None
            THEN goOn(IF force THEN "force" ELSE "none")
          ELSE IF force THEN goOn("force")
          ELSE \E confirmed \in BOOLEAN :
                 IF confirmed THEN goOn("confirmed")
                 ELSE /\ res' = [res EXCEPT ![p] = [kind |-> "Ok",
                                                    cancelled |-> TRUE]]
                      /\ pc' = [pc EXCEPT ![p] = "done"]
                      /\ cmd' = [cmd EXCEPT ![p] =
                                   [NewCmd("remove", 0) EXCEPT
                                      !.consent = "declined"]]
  /\ UNCHANGED <<disk, tmp, mem, wt, portVars, run>>

\* the cleanup command, the call of remove (cleanup.rs 36,
\* worktree.rs 201-207)
CleanupRemove(p) ==
  /\ pc[p] = "cleanup"
  /\ RemoveLookup(p, cmd[p].pr)
  /\ UNCHANGED <<disk, tmp, wt, portVars, run>>

\* remove, git.remove_worktree and the in-memory part of remove_review
\* (worktree.rs 209-214, state.rs 138)
RemoveGit(p) ==
  /\ pc[p] = "rm_git"
  /\ \E rmOk \in BOOLEAN :
       IF ~rmOk
         THEN /\ Return(p, Err("GitError"))
              /\ UNCHANGED wt
         ELSE /\ wt' = wt \ {GetReview(mem[p], cmd[p].pr)[1].worktree_path}
              /\ mem' = [mem EXCEPT ![p] = RemoveReviewMem(mem[p], cmd[p].pr)]
              /\ pc' = [pc EXCEPT ![p] = "save"]
              /\ UNCHANGED <<res, cmd>>
  /\ UNCHANGED <<disk, tmp, portVars, run>>

\* the process exits; the next invocation of the tool starts afresh
Exit(p) ==
  /\ pc[p] = "done"
  /\ pc' = [pc EXCEPT ![p] = "idle"]
  /\ cmd' = [cmd EXCEPT ![p] = IdleCmd]
  /\ res' = [res EXCEPT ![p] = NoRes]
  /\ UNCHANGED <<disk, tmp, mem, wt, portVars, run>>

\* ------------------------------------------------------ specifications
\* the sandbox section of the configuration file (config.rs 148-190)
Configs ==
  [auto_install_deps : BOOLEAN, copy_env_from_main : BOOLEAN, port_enabled : BOOLEAN]

\* concurrent invocations of the tool, configured to assign ports and to
\* skip the dependency installation and the copy of the env files
PortOnly ==
  {[auto_install_deps |-> FALSE, copy_env_from_main |-> FALSE, port_enabled |-> TRUE]}

Step(p, configs) ==
  \/ CreateWorktree(p)
  \/ CreateSetup(p, configs)
  \/ SaveCheck(p)
  \/ SaveRename(p)
  \/ RemoveLoad(p)
  \/ RemoveGit(p)
  \/ Exit(p)

Next == \E p \in Procs : Step(p, PortOnly)

Spec == Init /\ [][Next]_vars

\* one invocation at a time, under every configuration
NextSeq == Step(1, Configs)

SpecSeq == Init /\ [][NextSeq]_vars

\* the state file is changed from outside the tool (an editor, a disk
\* fault) so that it no longer parses as a State
ExternalCorrupt ==
  /\ disk # NoFile
  /\ disk' = CorruptFile
  /\ UNCHANGED <<tmp, mem, pc, cmd, res, wt, portVars, run>>

\* one invocation at a time, and the outside change at any moment
NextEnv == Step(1, PortOnly) \/ ExternalCorrupt

\* one invocation at a time, creates with and without custom_path
NextCustom == Step(1, PortOnly) \/ CreateCustom(1)

SpecCustom == Init /\ [][NextCustom]_vars

SpecEnv == Init /\ [][NextEnv]_vars

\* store files of older formats (state.rs 11-44): a record without the
\* sandbox and agent fields or with the sandbox fields only, a file with or
\* without the version field
OldRecord(pr) ==
  [pr_number |-> pr, branch |-> BranchOf(pr), worktree_path |-> PathOf(pr)]

SandboxRecord(pr) ==
  OldRecord(pr) @@ [port |-> RangeStart + pr - 1, project_type |-> "Rust",
                    deps_installed |-> TRUE, env_copied |-> TRUE]

OldRecordLists ==
  {<<>>}
  \cup {<<r>> : r \in {OldRecord(pr) : pr \in PRs}
                      \cup {SandboxRecord(pr) : pr \in PRs}}
  \cup {<<a, b>> : <<a, b>> \in
          {<<x, y>> \in ({OldRecord(pr) : pr \in PRs}
                          \cup {SandboxRecord(pr) : pr \in PRs})
                         \X ({OldRecord(pr) : pr \in PRs}
                             \cup {SandboxRecord(pr) : pr \in PRs}) :
             x.pr_number # y.pr_number}}

OldFiles ==
  {[kind |-> "yaml", reviews |-> l] : l \in OldRecordLists}
  \cup {[kind |-> "yaml", version |-> 1, reviews |-> l] : l \in OldRecordLists}

\* a store file of an older format is there, with the worktrees of its
\* records, when the tool is first run
InitOld ==
  /\ disk \in OldFiles
  /\ wt = {disk.reviews[i].worktree_path : i \in DOMAIN disk.reviews}
  /\ tmp = [p \in Procs |-> NoFile]
  /\ mem = [p \in Procs |-> DefaultState]
  /\ pc = [p \in Procs |-> "idle"]
  /\ cmd = [p \in Procs |-> IdleCmd]
  /\ res = [p \in Procs |-> NoRes]
  /\ pin = NoPortIn
  /\ pout = NoPortOut
  /\ run = NoRun

NextOld == Step(1, PortOnly)

\* one invocation of the cleanup command after the other in process 1,
\* one invocation of the review command after the other in process 2
CleanupStep(p) ==
  \/ CleanupConfirm(p)
  \/ CleanupRemove(p)
  \/ RemoveGit(p)
  \/ SaveCheck(p)
  \/ SaveRename(p)
  \/ Exit(p)

CreateStep(p) ==
  \/ CreateWorktree(p)
  \/ CreateSetup(p, PortOnly)
  \/ SaveCheck(p)
  \/ SaveRename(p)
  \/ Exit(p)

NextCleanup == CleanupStep(1) \/ CreateStep(NumProcs)

SpecCleanup == Init /\ [][NextCleanup]_vars

SpecOld == InitOld /\ [][NextOld]_vars

\* ----------------------------------------------- assign_port on any State
MaxPortRecs == 2

\* a ReviewState holding the given port
PortRecord(i, port) ==
  [pr_number |-> i, branch |-> BranchOf(i), worktree_path |-> PathOf(i),
   port |-> port, project_type |-> None, deps_installed |-> FALSE,
   env_copied |-> FALSE, agent_analyses |-> <<>>]

\* the ports a record of the given State may hold: the range and one port
\* on either side of it
HeldPorts == {None} \cup {Some(q) : q \in (RangeStart - 1)..(RangeEnd + 1)}

PortStates ==
  UNION {[1..n -> HeldPorts] : n \in 0..MaxPortRecs}

InitPort ==
  /\ InitStore
  /\ pout = NoPortOut
  /\ run = NoRun
  /\ \E ports \in PortStates, first \in PortRange, last \in (RangeStart - 1)..RangeEnd,
        bound \in SUBSET PortRange :
       pin = [reviews |-> [i \in DOMAIN ports |-> PortRecord(i, ports[i])],
              first |-> first, last |-> last, bound |-> bound]

\* PortManager::new(first, last).assign_port(&state)
PortCall ==
  /\ pout = NoPortOut
  /\ pout' = AssignPort([version |-> 0, reviews |-> pin.reviews],
                        pin.first, pin.last, pin.bound)
  /\ UNCHANGED <<pin, storeVars, run>>

NextPort == PortCall

SpecPort == InitPort /\ [][NextPort]_vars

\* a second assign_port on the same State with the same ports bound: the
\* first call has changed neither (port.rs 21-46 takes &self and &State,
\* and the listener of is_port_in_use is dropped at once)
PortRecall ==
  /\ pout # NoPortOut
  /\ "again" \notin DOMAIN pout
  /\ pout' = pout @@ [again |-> AssignPort([version |-> 0, reviews |-> pin.reviews],
                                          pin.first, pin.last, pin.bound)]
  /\ UNCHANGED <<pin, storeVars, run>>

NextPortTwice == PortCall \/ PortRecall

SpecPortTwice == InitPort /\ [][NextPortTwice]_vars

\* ------------------------------------------------- validate_path_secure
\* A path is [abs, comps]: whether it starts at the root, and its
\* components.  A file system is [dirs, links]: the absolute paths that are
\* directories (the root always is one) and the symbolic links, each
\* [at, to] with to an absolute path.  cwd is the working directory, which
\* the operating system resolves relative paths against.
MaxPathLen == 4
MaxLinks == 2

ParentDir == ".."
Comps == {"base", "pr", "x", ParentDir}

RECURSIVE SeqsUpTo(_, _)
SeqsUpTo(S, n) ==
  IF n = 0 THEN {<<>>}
  ELSE LET shorter == SeqsUpTo(S, n - 1)
       IN shorter \cup {Append(q, c) : q \in {r \in shorter : Len(r) = n - 1}, c \in S}

Paths == {[abs |-> a, comps |-> c] : a \in BOOLEAN, c \in SeqsUpTo(Comps, MaxPathLen)}

Front(q) == SubSeq(q, 1, Len(q) - 1)
IsPrefix(a, b) == Len(a) <= Len(b) /\ SubSeq(b, 1, Len(a)) = a

\* Path::starts_with: whole components, and a relative path never starts
\* with an absolute one
StartsWith(path, base) == path.abs = base.abs /\ IsPrefix(base.comps, path.comps)

IsLink(fs, q) == \E l \in fs.links : l.at = q
LinkTarget(fs, q) == (CHOOSE l \in fs.links : l.at = q).to

\* the walk of the operating system over the components rest, from the
\* resolved directory cur, following symbolic links; it fails at a component
\* that does not exist
RECURSIVE Walk(_, _, _, _)
Walk(fs, cur, rest, hops) ==
  IF rest = <<>> THEN [ok |-> TRUE, comps |-> cur]
  ELSE IF Head(rest) = ParentDir
    THEN Walk(fs, IF cur = <<>> THEN <<>> ELSE Front(cur), Tail(rest), hops)
  ELSE LET next == Append(cur, Head(rest))
       IN IF IsLink(fs, next)
            THEN IF hops = 0 THEN [ok |-> FALSE, error |-> "IoError"]
                 ELSE Walk(fs, <<>>, LinkTarget(fs, next) \o Tail(rest), hops - 1)
          ELSE IF next \in fs.dirs THEN Walk(fs, next, Tail(rest), hops)
          ELSE [ok |-> FALSE, error |-> "IoError"]

\* Path::canonicalize; the empty path does not exist
Canonicalize(fs, cwd, path) ==
  IF ~path.abs /\ path.comps = <<>> THEN [ok |-> FALSE, error |-> "IoError"]
  ELSE Walk(fs, IF path.abs THEN <<>> ELSE cwd, path.comps, MaxLinks)

\* Path::exists
Exists(fs, cwd, path) == Canonicalize(fs, cwd, path).ok

\* Path::parent and Path::file_name of a path without ParentDir components
Parent(path) == IF path.comps = <<>> THEN None
                ELSE Some([abs |-> path.abs, comps |-> Front(path.comps)])
FileName(path) == IF path.comps = <<>> THEN None
                  ELSE Some(path.comps[Len(path.comps)])

HasParentDir(path) == \E i \in DOMAIN path.comps : path.comps[i] = ParentDir

Abs(q) == [abs |-> TRUE, comps |-> q]
Accept(path) == [ok |-> TRUE, path |-> path]
Reject == [ok |-> FALSE, error |-> "ConfigError"]

\* worktree.rs 37-101: the validator after its test for ParentDir components
ValidateResolved(fs, cwd, path, base) ==
  LET cb == Canonicalize(fs, cwd, base)
  IN IF ~cb.ok THEN Reject
     ELSE
       LET canonical_base == Abs(cb.comps)
           final(cp) == IF Exists(fs, cwd, cp) /\ ~StartsWith(cp, canonical_base)
                          THEN Reject ELSE Accept(cp)
       IN IF Exists(fs, cwd, path)
            THEN final(Abs(Canonicalize(fs, cwd, path).comps))
          ELSE IF Parent(path) = None THEN Reject
          ELSE LET parent == Parent(path)[1]
               IN IF Exists(fs, cwd, parent)
                    THEN LET canonical_parent == Abs(Canonicalize(fs, cwd, parent).comps)
                         IN IF ~StartsWith(canonical_parent, canonical_base) THEN Reject
                            ELSE IF FileName(path) = None THEN Reject
                            ELSE final(Abs(Append(canonical_parent.comps,
                                                  FileName(path)[1])))
                  ELSE IF ~StartsWith(path, base) THEN Reject
                  ELSE final(path)

\* the validator without its test for ParentDir components
ValidateNoParentDirTest(fs, cwd, path, base) == ValidateResolved(fs, cwd, path, base)

\* WorktreeManager::validate_path_secure (worktree.rs 25-102)
ValidatePathSecure(fs, cwd, path, base) ==
  IF HasParentDir(path) THEN Reject
  ELSE ValidateResolved(fs, cwd, path, base)

\* the directories and links of the file systems the validator is run on:
\* the base directory /base, a directory /out outside of it, an entry pr in
\* each, and a link /base/pr that leads to /out or to nothing
BaseDir == Abs(<<"base">>)
DirUniverse == {<<"base">>, <<"out">>, <<"base", "pr">>, <<"out", "pr">>}
DirSets == {d \in SUBSET DirUniverse : \A q \in d : Len(q) > 1 => Front(q) \in d}
LinkTargets == {<<"out">>, <<"gone">>}
LinksFor(d) ==
  {{}} \cup (IF <<"base">> \in d /\ <<"base", "pr">> \notin d
              THEN {{[at |-> <<"base", "pr">>, to |-> t]} : t \in LinkTargets}
              ELSE {})
FileSystems == UNION {{[dirs |-> d, links |-> l] : l \in LinksFor(d)} : d \in DirSets}
WorkDirs(fs) == {<<>>} \cup (fs.dirs \cap {<<"base">>})

InitPath ==
  /\ InitStore
  /\ pout = NoPortOut
  /\ run = NoRun
  /\ \E fs \in FileSystems, path \in Paths :
       \E cwd \in WorkDirs(fs) :
         pin = [fs |-> fs, cwd |-> cwd, path |-> path, base |-> BaseDir]

\* WorktreeManager::validate_path_secure(&path, &base_dir)
PathCall ==
  /\ pout = NoPortOut
  /\ pout' = ValidatePathSecure(pin.fs, pin.cwd, pin.path, pin.base)
  /\ UNCHANGED <<pin, storeVars, run>>

NextPath == PathCall

SpecPath == InitPath /\ [][NextPath]_vars

\* ----------------------------------------------------- hash_branch_name
\* The value of the 64-bit hash is the input: the branch name enters only
\* through DefaultHasher.  Sampled hashes are the multiples of HashStep up
\* to MaxHashSample * HashStep, which run through the residues of
\* HashModulus, and the largest value the checker's integers hold.
HashModulus == 100000
HashOffset == 90000
ReservedFirst == 90000
ReservedLast == 99999

MaxHashSample == 120
HashStep == 2503
LargestSample == (2^30 - 1) * 2 + 1
HashValues == {k * HashStep : k \in 0..MaxHashSample} \cup {LargestSample}

\* WorktreeManager::hash_branch_name (worktree.rs 226-233), from the value
\* of hasher.finish()
HashBranchName(h) == (h % HashModulus) + HashOffset

InitHash ==
  /\ InitStore
  /\ pout = NoPortOut
  /\ run = NoRun
  /\ \E h \in HashValues : pin = [hash |-> h]

\* Self::hash_branch_name(&branch)
HashCall ==
  /\ pout = NoPortOut
  /\ pout' = [ok |-> TRUE, pr |-> HashBranchName(pin.hash)]
  /\ UNCHANGED <<pin, storeVars, run>>

NextHash == HashCall

SpecHash == InitHash /\ [][NextHash]_vars

\* ------------------------------------------------ AgentManager::parse_output
\* An agent's output is a sequence of lines.  A line is plain text with the
\* keywords it contains, text with an opening brace that is not JSON, or one
\* JSON value written on a single line.
MaxChunks == 2
MaxFindings == 2
MaxWords == 2

\* keywords of the groups of parse_with_patterns (agent.rs 497-521)
Keywords ==
  {"critical", "security", "vulnerability", "error", "bug", "warning",
   "performance", "slow", "suggestion", "improvement"}

\* the elements of a JSON array: an object with optional severity, title and
\* category members, or a value that is not an object
JsonScalar ==
  [kind |-> "scalar", severity |-> "absent", title |-> "absent",
   category |-> "absent"]

JsonElements ==
  [kind : {"object"}, severity : {"absent", "critical", "unknown"},
   title : {"absent", "T"}, category : {"absent"}]
  \cup {[kind |-> "object", severity |-> "high", title |-> "T",
         category |-> "security"],
        JsonScalar}

JsonArrays == UNION {[1..n -> JsonElements] : n \in 0..MaxFindings}

TextLines ==
  {[kind |-> "text", words |-> w] :
     w \in {x \in SUBSET Keywords : Cardinality(x) <= MaxWords}}

CodeLine == [kind |-> "code"]

\* the "findings" member of a JSON object: absent, not an array, or an array
FindingsMembers ==
  {[kind |-> "absent", items |-> <<>>], [kind |-> "nonarray", items |-> <<>>]}
  \cup {[kind |-> "array", items |-> a] : a \in JsonArrays}

ObjectLines ==
  {[kind |-> "object", findings |-> f, score |-> sc] :
     f \in FindingsMembers, sc \in BOOLEAN}

ArrayLines == {[kind |-> "array", elements |-> e] : e \in JsonArrays}

OutputLines == TextLines \cup {CodeLine} \cup ObjectLines \cup ArrayLines

Outputs == UNION {[1..n -> OutputLines] : n \in 0..MaxChunks}

\* str::contains on the lower-cased line (agent.rs 494-497): the keywords a
\* line contains; a JSON line contains the strings of its members
ElementWords(e) ==
  (IF e.severity = "critical" THEN {"critical"} ELSE {})
  \cup (IF e.category = "security" THEN {"security"} ELSE {})

LineWords(line) ==
  CASE line.kind = "text" -> line.words
    [] line.kind = "code" -> {}
    [] line.kind = "array" ->
         UNION {ElementWords(line.elements[i]) : i \in DOMAIN line.elements}
    [] line.kind = "object" ->
         UNION {ElementWords(line.findings.items[i]) :
                  i \in DOMAIN line.findings.items}

\* the line holds the character '{'
HasBrace(line) ==
  \/ line.kind \in {"code", "object"}
  \/ /\ line.kind = "array"
     /\ \E i \in DOMAIN line.elements : line.elements[i].kind = "object"

\* the line holds the character '['
HasBracket(line) ==
  \/ line.kind = "array"
  \/ line.kind = "object" /\ line.findings.kind = "array"

\* ReviewAnalysis::new (review_analysis.rs 199-207)
NewAnalysis(agent) ==
  [agent |-> agent, score |-> None, findings |-> <<>>, raw_output |-> None]

\* ReviewAnalysis::add_finding (review_analysis.rs 210-212)
AddFinding(analysis, finding) ==
  [analysis EXCEPT !.findings = Append(@, finding)]

\* ReviewAnalysis::set_raw_output (review_analysis.rs 221-223)
SetRawOutput(analysis, output) ==
  [analysis EXCEPT !.raw_output = Some(output)]

\* a string that is not a line of the output
Literal(s) == [kind |-> "literal", text |-> s]

\* Finding::new (review_analysis.rs 247-262)
NewFinding(severity, category, title, description) ==
  [severity |-> severity, category |-> category, title |-> title,
   description |-> description]

\* parse_json_finding (agent.rs 448-487): None without a string severity or
\* a string title
ParseJsonFinding(value) ==
  IF value.kind # "object" \/ value.severity = "absent"
     \/ value.title = "absent"
    THEN None
    ELSE Some(NewFinding(
           CASE value.severity = "critical" -> "Critical"
             [] value.severity = "high" -> "High"
             [] value.severity = "medium" -> "Medium"
             [] value.severity = "low" -> "Low"
             [] OTHER -> "Info",
           CASE value.category = "security" -> "Security"
             [] value.category = "performance" -> "Performance"
             [] OTHER -> "Other",
           Literal(value.title), Literal("")))

\* output.find('{') (agent.rs 396): the line of the first '{', 0 when
\* there is none
FirstBrace(output) ==
  IF \E i \in DOMAIN output : HasBrace(output[i])
    THEN CHOOSE i \in DOMAIN output :
           HasBrace(output[i]) /\ \A j \in 1..(i - 1) : ~HasBrace(output[j])
    ELSE 0

\* output.find('[') (agent.rs 398): the line of the first '[', 0 when
\* there is none
FirstBracket(output) ==
  IF \E i \in DOMAIN output : HasBracket(output[i])
    THEN CHOOSE i \in DOMAIN output :
           HasBracket(output[i]) /\ \A j \in 1..(i - 1) : ~HasBracket(output[j])
    ELSE 0

\* serde_json::from_str on the rest of the output from the first '{', or
\* from the first '[' when there is no '{' (agent.rs 396-405): Some(value)
\* when that rest is one JSON value and nothing else
JsonValue(output) ==
  LET brace == FirstBrace(output)
      bracket == FirstBracket(output)
      start == IF brace # 0 THEN brace ELSE bracket
  IN IF start = 0 THEN None
     ELSE IF start # Len(output) THEN None
     ELSE IF brace # 0
            THEN IF output[start].kind = "object" THEN Some(output[start])
                 ELSE None
     ELSE Some(output[start])

\* the loop over the findings array (agent.rs 431-435)
JsonFindings(analysis, values) ==
  LET F[i \in 0..Len(values)] ==
        IF i = 0 THEN analysis
        ELSE LET f == ParseJsonFinding(values[i])
             IN IF f = None THEN F[i - 1] ELSE AddFinding(F[i - 1], f[1])
  IN F[Len(values)]

\* try_parse_json (agent.rs 391-445)
TryParseJson(output, analysis) ==
  LET parsed == JsonValue(output)
  IN IF parsed = None THEN [ok |-> FALSE, analysis |-> analysis]
     ELSE LET v == parsed[1]
              isFindings == v.kind = "object" /\ v.findings.kind = "array"
          IN IF ~isFindings /\ v.kind # "array"
               THEN [ok |-> FALSE, analysis |-> analysis]
               ELSE LET a1 == JsonFindings(analysis,
                                IF isFindings THEN v.findings.items
                                ELSE v.elements)
                        a2 == IF v.kind = "object" /\ v.score
                                THEN [a1 EXCEPT !.score = Some("score")]
                                ELSE a1
                    IN [ok |-> a2.findings # <<>>, analysis |-> a2]

\* the keyword tests in the opposite order
ClassifyLastGroup(words) ==
  IF "suggestion" \in words \/ "improvement" \in words
    THEN Some(<<"Low", "BestPractice">>)
  ELSE IF "performance" \in words \/ "slow" \in words
    THEN Some(<<"Medium", "Performance">>)
  ELSE IF "warning" \in words THEN Some(<<"Medium", "BestPractice">>)
  ELSE IF "error" \in words \/ "bug" \in words
    THEN Some(<<"High", "CodeQuality">>)
  ELSE IF "security" \in words \/ "vulnerability" \in words
    THEN Some(<<"High", "Security">>)
  ELSE IF "critical" \in words THEN Some(<<"Critical", "Security">>)
  ELSE None

\* parse_with_patterns, the keyword tests in their order (agent.rs 497-524)
Classify(words) ==
  IF "critical" \in words THEN Some(<<"Critical", "Security">>)
  ELSE IF "security" \in words \/ "vulnerability" \in words
    THEN Some(<<"High", "Security">>)
  ELSE IF "error" \in words \/ "bug" \in words
    THEN Some(<<"High", "CodeQuality">>)
  ELSE IF "warning" \in words THEN Some(<<"Medium", "BestPractice">>)
  ELSE IF "performance" \in words \/ "slow" \in words
    THEN Some(<<"Medium", "Performance">>)
  ELSE IF "suggestion" \in words \/ "improvement" \in words
    THEN Some(<<"Low", "BestPractice">>)
  ELSE None

\* parse_with_patterns (agent.rs 490-534): a finding per line with a
\* keyword, its title the line and its description the next line
ParseWithPatterns(output, analysis) ==
  LET F[i \in 0..Len(output)] ==
        IF i = 0 THEN analysis
        ELSE LET c == Classify(LineWords(output[i]))
             IN IF c = None THEN F[i - 1]
                ELSE AddFinding(F[i - 1],
                       NewFinding(c[1][1], c[1][2], output[i],
                                  IF i + 1 <= Len(output) THEN output[i + 1]
                                  ELSE Literal("")))
  IN F[Len(output)]

\* the finding of the last stage (agent.rs 379-385)
FallbackFinding ==
  NewFinding("Info", "Other", Literal("Review completed"),
             Literal("Agent completed review - see raw output for details"))

\* parse_output without its last stage
ParseOutputNoFallback(output, analysis) ==
  LET j == TryParseJson(output, SetRawOutput(analysis, output))
  IN IF j.ok THEN j.analysis ELSE ParseWithPatterns(output, j.analysis)

\* parse_output with the keyword stage after every structured stage
ParseOutputAllStages(output, analysis) ==
  LET j == TryParseJson(output, SetRawOutput(analysis, output))
      a == ParseWithPatterns(output, j.analysis)
  IN IF a.findings = <<>> THEN AddFinding(a, FallbackFinding) ELSE a

\* parse_output (agent.rs 366-388)
ParseOutput(output, analysis) ==
  LET j == TryParseJson(output, SetRawOutput(analysis, output))
  IN IF j.ok THEN j.analysis
     ELSE LET a == ParseWithPatterns(output, j.analysis)
          IN IF a.findings = <<>> THEN AddFinding(a, FallbackFinding) ELSE a

\* one call of parse_output on a new analysis (agent.rs 221, 262-264)
InitParse ==
  /\ InitStore
  /\ pout = NoPortOut
  /\ run = NoRun
  /\ \E output \in Outputs : pin = [output |-> output, agent |-> "claude"]

ParseCall ==
  /\ pout = NoPortOut
  /\ pout' = [ok |-> TRUE,
              analysis |-> ParseOutput(pin.output, NewAnalysis(pin.agent))]
  /\ UNCHANGED <<pin, storeVars, run>>

NextParse == ParseCall

SpecParse == InitParse /\ [][NextParse]_vars

\* ------------------------------------------------- AgentManager::run_review
MaxAgents == 2
DefaultTimeout == 600
ShortTimeout == 30

KnownAgents == {"claude", "codex", "gemini"}
AgentNames == KnownAgents \cup {"unknown"}

\* every name has an arm of its own
AnyAgentKnown(agent) == TRUE

\* execute_agent, the match on the name (agent.rs 223-233)
KnownAgent(agent) == agent \in KnownAgents
AgentLists == UNION {[1..n -> AgentNames] : n \in 0..MaxAgents}
Timeouts == {DefaultTimeout, ShortTimeout}

\* what a subprocess leaves when it exits: std::process::Output
Stdouts == {<<>>, <<[kind |-> "text", words |-> {"critical"}]>>}
Stderrs == {"", "rate limit"}
\* with output.status.success() as success
ChildOutputs == [success : BOOLEAN, stdout : Stdouts, stderr : Stderrs]

NoChild == [state |-> "none", output |-> None]

\* the Result values of run_single_agent and of a joined task
OkAnalysis(analysis) == [kind |-> "Ok", analysis |-> analysis]

UnknownAgent(agent) == [kind |-> "ConfigError", agent |-> agent]

AgentExecutionError(agent, stdout, stderr) ==
  [kind |-> "AgentExecutionError", agent |-> agent, stdout |-> stdout,
   stderr |-> stderr]

\* the timeout error with the default number of seconds
TimedOutDefault(agent, secs) ==
  [kind |-> "Other", message |-> <<"timed out", agent, DefaultTimeout>>]

\* the error of an elapsed timeout (agent.rs 205-209)
TimedOut(agent, secs) ==
  [kind |-> "Other", message |-> <<"timed out", agent, secs>>]

JoinError == [kind |-> "JoinError"]

\* e.to_string() (error.rs 95, agent.rs 109, 114, 165): the text of an
\* AgentExecutionError has the agent and stderr, not stdout
ErrorText(e) ==
  IF e.kind = "AgentExecutionError"
    THEN [kind |-> e.kind, agent |-> e.agent, stderr |-> e.stderr]
    ELSE e

\* the state of a run_review call that has not started
NewRun(enabled, parallel, timeout, agents) ==
  [phase |-> "start", enabled |-> enabled, parallel |-> parallel,
   timeout |-> timeout, agents |-> agents,
   task |-> [i \in DOMAIN agents |-> "unspawned"],
   child |-> [i \in DOMAIN agents |-> NoChild],
   invoked |-> [i \in DOMAIN agents |-> 0],
   started |-> [i \in DOMAIN agents |-> 0],
   result |-> [i \in DOMAIN agents |-> None],
   idx |-> 1, analyses |-> <<>>, errors |-> <<>>, ret |-> None]

\* the match on one agent's result without the failure arms
CollectDropFailures(r, i, result) ==
  IF result.kind = "Ok"
    THEN [r EXCEPT !.analyses = Append(@, result.analysis)]
    ELSE r

\* the match on one agent's result, the newest analysis first
CollectNewestFirst(r, i, result) ==
  IF result.kind = "Ok"
    THEN [r EXCEPT !.analyses = <<result.analysis>> \o @]
    ELSE [r EXCEPT !.errors = Append(@, [agent |-> r.agents[i],
                                          error |-> ErrorText(result)])]

\* the match on one agent's result (agent.rs 102-118, 158-169)
Collect(r, i, result) ==
  IF result.kind = "Ok"
    THEN [r EXCEPT !.analyses = Append(@, result.analysis)]
    ELSE [r EXCEPT !.errors = Append(@, [agent |-> r.agents[i],
                                          error |-> ErrorText(result)])]

\* the loop over the joined results (agent.rs 100-119)
CollectAll(r) ==
  LET F[i \in 0..Len(r.agents)] ==
        IF i = 0 THEN r ELSE Collect(F[i - 1], i, r.result[i][1])
  IN F[Len(r.agents)]

\* run_single_agent returns result for agent i; in sequential mode the loop
\* body goes on with the match and the next agent (agent.rs 156-170)
Finish(r, i, result) ==
  LET done == [r EXCEPT !.task[i] = "finished", !.result[i] = Some(result)]
  IN IF r.parallel THEN done
     ELSE [Collect(done, i, result) EXCEPT !.idx = i + 1]

\* run_review (agent.rs 34-56) and the spawn loop of run_parallel
\* (agent.rs 77-88)
RunReview ==
  /\ run.phase = "start"
  /\ run' = IF ~run.enabled
              THEN [run EXCEPT !.phase = "returned", !.ret = Some(<<>>)]
            ELSE IF run.parallel
              THEN [run EXCEPT !.phase = "parallel",
                               !.task = [i \in DOMAIN run.agents |-> "spawned"]]
            ELSE [run EXCEPT !.phase = "sequential"]
  /\ UNCHANGED <<storeVars, portVars>>

\* run_single_agent up to its first suspension (agent.rs 187-199, 214-235,
\* command.rs 68-72): an unknown name returns at once, a known one spawns
\* its subprocess
TaskStart(i) ==
  /\ i \in DOMAIN run.agents
  /\ \/ run.phase = "parallel" /\ run.task[i] = "spawned"
     \/ run.phase = "sequential" /\ run.idx = i /\ run.task[i] = "unspawned"
  /\ LET r == [run EXCEPT !.invoked[i] = @ + 1]
     IN IF ~KnownAgent(run.agents[i])
          THEN run' = Finish(r, i, UnknownAgent(run.agents[i]))
          ELSE \E spawnOk \in BOOLEAN :
            IF spawnOk
              THEN run' = [r EXCEPT !.task[i] = "waiting",
                                    !.started[i] = @ + 1,
                                    !.child[i] = [state |-> "running",
                                                  output |-> None]]
              ELSE run' = Finish(r, i, Err("IoError"))
  /\ UNCHANGED <<storeVars, portVars>>

\* the subprocess of agent i exits
ChildExit(i) ==
  /\ i \in DOMAIN run.agents
  /\ run.child[i].state = "running"
  /\ \E out \in ChildOutputs :
       run' = [run EXCEPT !.child[i] = [state |-> "exited",
                                        output |-> Some(out)]]
  /\ UNCHANGED <<storeVars, portVars>>

\* the output is parsed whatever the exit status
AgentOutcomeIgnoreStatus(agent, out) ==
  OkAnalysis(ParseOutput(out.stdout, NewAnalysis(agent)))

\* run_claude, run_codex, run_gemini after the subprocess has exited
\* (agent.rs 263-274, 304-315, 346-357)
AgentOutcome(agent, out) ==
  IF out.success
    THEN OkAnalysis(ParseOutput(out.stdout, NewAnalysis(agent)))
    ELSE AgentExecutionError(agent, out.stdout, out.stderr)

\* the output is ready before the timeout (agent.rs 203-204)
AgentComplete(i) ==
  /\ i \in DOMAIN run.agents
  /\ run.phase \in {"parallel", "sequential"}
  /\ run.task[i] = "waiting"
  /\ run.child[i].state = "exited"
  /\ run' = Finish(run, i, AgentOutcome(run.agents[i], run.child[i].output[1]))
  /\ UNCHANGED <<storeVars, portVars>>

\* a timeout that is only taken once the subprocess has exited
AgentTimeoutAwaitsChild(i) ==
  /\ i \in DOMAIN run.agents
  /\ run.phase \in {"parallel", "sequential"}
  /\ run.task[i] = "waiting"
  /\ run.child[i].state = "exited"
  /\ run' = Finish(run, i, TimedOut(run.agents[i], run.timeout))
  /\ UNCHANGED <<storeVars, portVars>>

\* the timeout elapses with the subprocess still running: the future that
\* holds the Child is dropped and the Child was built without kill_on_drop
\* (agent.rs 196-209, command.rs 68-72)
AgentTimeout(i) ==
  /\ i \in DOMAIN run.agents
  /\ run.phase \in {"parallel", "sequential"}
  /\ run.task[i] = "waiting"
  /\ run.child[i].state = "running"
  /\ run' = Finish(run, i, TimedOut(run.agents[i], run.timeout))
  /\ UNCHANGED <<storeVars, portVars>>

\* a spawned task panics, its JoinHandle yields a JoinError (agent.rs 112)
TaskPanic(i) ==
  /\ i \in DOMAIN run.agents
  /\ run.phase = "parallel"
  /\ run.task[i] \in {"spawned", "waiting"}
  /\ run' = [run EXCEPT !.task[i] = "panicked", !.result[i] = Some(JoinError)]
  /\ UNCHANGED <<storeVars, portVars>>

\* run_parallel from join_all on (agent.rs 95-133); run_sequential after
\* the loop (agent.rs 173-184)
RunReturn ==
  /\ \/ /\ run.phase = "parallel"
        /\ \A i \in DOMAIN run.agents : run.task[i] \in {"finished", "panicked"}
        /\ run' = [CollectAll(run) EXCEPT !.phase = "returned",
                                          !.ret = Some(CollectAll(run).analyses)]
     \/ /\ run.phase = "sequential"
        /\ run.idx > Len(run.agents)
        /\ run' = [run EXCEPT !.phase = "returned", !.ret = Some(run.analyses)]
  /\ UNCHANGED <<storeVars, portVars>>

InitAgents ==
  /\ InitStore
  /\ pin = NoPortIn
  /\ pout = NoPortOut
  /\ \E enabled \in BOOLEAN, parallel \in BOOLEAN, timeout \in Timeouts,
        agents \in AgentLists :
       run = NewRun(enabled, parallel, timeout, agents)

AgentStep(i) ==
  \/ TaskStart(i)
  \/ ChildExit(i)
  \/ AgentComplete(i)
  \/ AgentTimeout(i)
  \/ TaskPanic(i)

NextAgents == RunReview \/ RunReturn \/ \E i \in 1..MaxAgents : AgentStep(i)

SpecAgents == InitAgents /\ [][NextAgents]_vars

\* the tokio runtime polls every task that can make progress, and the timer
\* of tokio::time::timeout fires after the finite duration (agent.rs
\* 195-199): the steps of run_review and of its tasks are taken when they
\* stay enabled.  Nothing makes a subprocess exit, and no task has to panic
FairAgents ==
  /\ WF_vars(RunReview)
  /\ WF_vars(RunReturn)
  /\ \A i \in 1..MaxAgents :
       /\ WF_vars(TaskStart(i))
       /\ WF_vars(AgentComplete(i))
       /\ WF_vars(AgentTimeout(i))

SpecAgentsFair == SpecAgents /\ FairAgents

\* the version of the state file: 0 while there is none
DiskVersion(f) == IF f = NoFile THEN 0 ELSE Deserialize(f).version

\* ------------------------------------------------- review command, agents
\* what run_review hands back to the review command: no analysis, or the
\* analyses of the agents that succeeded
AnalysesResults == {<<>>, <<ParseOutput(<<>>, NewAnalysis("claude"))>>}

\* the review command with agents: the save of create ends with the rename
\* (state.rs 121-125), create returns the record and the agents are
\* started (review.rs 23, 66-87)
ReviewRename(p) ==
  /\ pc[p] = "rename"
  /\ cmd[p].op = "create"
  /\ disk' = tmp[p]
  /\ tmp' = [tmp EXCEPT ![p] = NoFile]
  /\ mem' = [mem EXCEPT ![p] = DefaultState]
  /\ pc' = [pc EXCEPT ![p] = "agents"]
  /\ UNCHANGED <<cmd, res, wt, portVars, run>>

\* the review command after run_review has returned (review.rs 88-101):
\* with an analysis, the record create returned gets the analyses and is
\* added to a newly loaded State; the save is the next step
ReviewSave(p) ==
  /\ pc[p] = "agents"
  /\ \E analyses \in AnalysesResults :
       IF analyses = <<>>
         THEN Return(p, [kind |-> "Ok", version |-> DiskVersion(disk),
                         replaced |-> cmd[p].replaced])
         ELSE LET l == LoadResult(disk)
                  review == [cmd[p].review EXCEPT !.agent_analyses = analyses]
              IN IF ~l.ok
                   THEN Return(p, Err(l.error))
                   ELSE /\ mem' = [mem EXCEPT ![p] =
                                     AddReviewMem(l.state, review)]
                        /\ cmd' = [cmd EXCEPT ![p].op = "analyses",
                                              ![p].review = review]
                        /\ pc' = [pc EXCEPT ![p] = "save"]
                        /\ UNCHANGED res
  /\ UNCHANGED <<disk, tmp, wt, portVars, run>>

\* invocations of the review command with agents
ReviewStep(p) ==
  \/ CreateWorktree(p)
  \/ CreateSetup(p, PortOnly)
  \/ SaveCheck(p)
  \/ SaveRename(p)
  \/ ReviewRename(p)
  \/ ReviewSave(p)
  \/ Exit(p)

\* process 1 runs cleanup and review without agents, the last process
\* runs review with agents
NextReview == CleanupStep(1) \/ CreateStep(1) \/ ReviewStep(NumProcs)

SpecReview == Init /\ [][NextReview]_vars

\* ------------------------------------------- a caller that keeps its State
\* a caller loads the State and keeps the value (state.rs 48-64)
HolderLoad(p) ==
  /\ pc[p] = "idle"
  /\ LET l == LoadResult(disk)
     IN IF ~l.ok
          THEN Return(p, Err(l.error))
          ELSE /\ mem' = [mem EXCEPT ![p] = l.state]
               /\ cmd' = [cmd EXCEPT ![p] = NewCmd("hold", 0)]
               /\ pc' = [pc EXCEPT ![p] = "hold"]
               /\ UNCHANGED res
  /\ UNCHANGED <<disk, tmp, wt, portVars, run>>

\* the caller calls save on the value it holds; before: the version of the
\* value at the call
HolderCall(p) ==
  /\ pc[p] = "hold"
  /\ mem[p].version < MaxVersion
  /\ cmd' = [cmd EXCEPT ![p] = NewCmd("save", 0) @@ [before |-> mem[p].version]]
  /\ res' = [res EXCEPT ![p] = NoRes]
  /\ pc' = [pc EXCEPT ![p] = "h_save"]
  /\ UNCHANGED <<disk, tmp, mem, wt, portVars, run>>

\* save up to the written temp file, &mut self being the caller's value
\* (state.rs 68-117): a file call before the increment fails, the version
\* check fails, a file call after the increment fails (the temp file is
\* deleted on drop), or the temp file is written
HolderCheck(p) ==
  /\ pc[p] = "h_save"
  /\ \/ /\ res' = [res EXCEPT ![p] = Err("IoError")]
        /\ pc' = [pc EXCEPT ![p] = "hold"]
        /\ UNCHANGED <<mem, tmp>>
     \/ /\ disk # NoFile /\ Readable(disk)
        /\ Deserialize(disk).version # mem[p].version
        /\ res' = [res EXCEPT ![p] = [kind |-> "StateConflict",
                                       expected |-> mem[p].version,
                                       actual |-> Deserialize(disk).version]]
        /\ pc' = [pc EXCEPT ![p] = "hold"]
        /\ UNCHANGED <<mem, tmp>>
     \/ /\ ~(disk # NoFile /\ Readable(disk)
             /\ Deserialize(disk).version # mem[p].version)
        /\ mem' = [mem EXCEPT ![p].version = @ + 1]
        /\ \/ /\ res' = [res EXCEPT ![p] = Err("IoError")]
              /\ pc' = [pc EXCEPT ![p] = "hold"]
              /\ UNCHANGED tmp
           \/ /\ tmp' = [tmp EXCEPT ![p] = Serialize(mem'[p])]
              /\ pc' = [pc EXCEPT ![p] = "h_rename"]
              /\ UNCHANGED res
  /\ UNCHANGED <<disk, cmd, wt, portVars, run>>

\* save, persist() (state.rs 121-125): the rename, or its failure, after
\* which the temp file is deleted
HolderPersist(p) ==
  /\ pc[p] = "h_rename"
  /\ \/ /\ disk' = tmp[p]
        /\ res' = [res EXCEPT ![p] = [kind |-> "Ok", version |-> mem[p].version,
                                       replaced |-> FALSE]]
     \/ /\ res' = [res EXCEPT ![p] = Err("IoError")]
        /\ UNCHANGED disk
  /\ tmp' = [tmp EXCEPT ![p] = NoFile]
  /\ pc' = [pc EXCEPT ![p] = "hold"]
  /\ UNCHANGED <<mem, cmd, wt, portVars, run>>

\* the caller drops the value
HolderDrop(p) ==
  /\ pc[p] = "hold"
  /\ Return(p, NoRes)
  /\ UNCHANGED <<disk, tmp, wt, portVars, run>>

HolderStep(p) ==
  \/ HolderLoad(p)
  \/ HolderCall(p)
  \/ HolderCheck(p)
  \/ HolderPersist(p)
  \/ HolderDrop(p)
  \/ Exit(p)

\* process 1 keeps a State over several saves, the last process runs
\* review without agents
NextSave == HolderStep(1) \/ CreateStep(NumProcs)

SpecSave == Init /\ [][NextSave]_vars

\* ------------------------------------------- list, status, agent-result
ReadOps == {"list", "status", "agent-result"}

\* the identifiers of the records of st whose worktree directory does not
\* exist (list.rs 19-24, status.rs 20)
StalePRs(st, dirs) ==
  {st.reviews[k].pr_number :
     k \in {j \in DOMAIN st.reviews : st.reviews[j].worktree_path \notin dirs}}

\* list, status and agent-result up to State::load (worktree.rs 220-223,
\* status.rs 7, agent_result.rs 6)
ReadLoad(p) ==
  /\ pc[p] = "idle"
  /\ \E op \in ReadOps, pr \in PRs :
       LET l == LoadResult(disk)
       IN IF ~l.ok
            THEN /\ res' = [res EXCEPT ![p] = Err(l.error)]
                 /\ pc' = [pc EXCEPT ![p] = "done"]
                 /\ cmd' = [cmd EXCEPT ![p] = NewCmd(op, 0)]
                 /\ UNCHANGED mem
            ELSE /\ mem' = [mem EXCEPT ![p] = l.state]
                 /\ cmd' = [cmd EXCEPT ![p] = NewCmd(op, IF op = "list" THEN 0 ELSE pr)]
                 /\ pc' = [pc EXCEPT ![p] = "read"]
                 /\ UNCHANGED res
  /\ UNCHANGED <<disk, tmp, wt, portVars, run>>

\* a list that takes the stale records out of the store
ListRepairing(p) ==
  /\ res' = [res EXCEPT ![p] = [kind |-> "Ok", reviews |-> mem[p].reviews,
                                 stale |-> StalePRs(mem[p], wt)]]
  /\ disk' = IF StalePRs(mem[p], wt) = {} THEN disk
             ELSE Serialize([mem[p] EXCEPT !.reviews =
                    SelectSeq(@, LAMBDA x : x.worktree_path \in wt)])

\* list after the load (list.rs 13-74): the records, and those whose
\* directory is missing in a warning
List(p) ==
  /\ res' = [res EXCEPT ![p] = [kind |-> "Ok", reviews |-> mem[p].reviews,
                                 stale |-> StalePRs(mem[p], wt)]]
  /\ UNCHANGED disk

\* status after the load (status.rs 8-77)
Status(p) ==
  /\ res' = [res EXCEPT ![p] =
       IF GetReview(mem[p], cmd[p].pr) = None
         THEN [kind |-> "WorktreeNotFound", pr |-> cmd[p].pr]
         ELSE [kind |-> "Ok", reviews |-> GetReview(mem[p], cmd[p].pr),
               stale |-> StalePRs(mem[p], wt) \cap {cmd[p].pr}]]
  /\ UNCHANGED disk

\* agent-result after the load (agent_result.rs 8-35)
AgentResult(p) ==
  /\ res' = [res EXCEPT ![p] =
       IF GetReview(mem[p], cmd[p].pr) = None
         THEN [kind |-> "PrNotFound", pr |-> cmd[p].pr]
         ELSE [kind |-> "Ok", reviews |-> GetReview(mem[p], cmd[p].pr),
               stale |-> {}]]
  /\ UNCHANGED disk

\* the rest of a read command: it reports and returns, its State is dropped
ReadReport(p) ==
  /\ pc[p] = "read"
  /\ \/ cmd[p].op = "list" /\ List(p)
     \/ cmd[p].op = "status" /\ Status(p)
     \/ cmd[p].op = "agent-result" /\ AgentResult(p)
  /\ pc' = [pc EXCEPT ![p] = "done"]
  /\ mem' = [mem EXCEPT ![p] = DefaultState]
  /\ UNCHANGED <<cmd, tmp, wt, portVars, run>>

\* a worktree directory is removed from outside the tool (list.rs 29,
\* status.rs 21: "worktree was manually removed")
ExternalRemoveDir ==
  /\ \E path \in wt : wt' = wt \ {path}
  /\ UNCHANGED <<disk, tmp, mem, pc, cmd, res, portVars, run>>

ReadStep(p) ==
  \/ ReadLoad(p)
  \/ ReadReport(p)
  \/ Exit(p)

\* process 1 runs the read commands, the last process runs review without
\* agents, and directories may be removed from outside
NextRead == ReadStep(1) \/ CreateStep(NumProcs) \/ ExternalRemoveDir

SpecRead == Init /\ [][NextRead]_vars

\* ---------------------------------------------------------------- claims

\* process p ends a save with the rename in this step
Renames(p) == pc[p] = "rename" /\ pc'[p] = "done"

\* process p runs State::load in this step
Loads(p) ==
  \/ pc[p] = "load" /\ pc'[p] # "load"
  \/ pc[p] = "idle" /\ cmd'[p].op = "remove"

\* the records of a file, as a load returns them
DiskReviews == LoadResult(disk).state.reviews

\* C1: of two processes that hold the store at the same version and both
\* save, never both succeed: two successful saves never end at the same
\* version.
C1_OneWriterPerVersion ==
  \A p \in Procs, q \in Procs :
    (p # q /\ pc[p] = "done" /\ pc[q] = "done"
       /\ res[p].kind = "Ok" /\ res[q].kind = "Ok")
    => res[p].version # res[q].version

\* C2: the on-disk version starts at 0, never decreases, and every
\* successful save raises it by exactly 1 over the value on disk just
\* before.
C2_VersionMonotone ==
  /\ DiskVersion(disk) = 0
  /\ [][/\ DiskVersion(disk') >= DiskVersion(disk)
        /\ \A p \in Procs :
             Renames(p) => DiskVersion(disk') = DiskVersion(disk) + 1]_vars

\* C3: a save that finds on disk a version other than the one it holds
\* returns StateConflict with expected the held and actual the found version,
\* and leaves the file as it was.
C3_ConflictLeavesFile ==
  [][\A p \in Procs :
       (/\ pc[p] = "save"
        /\ pc'[p] # "save"
        /\ disk # NoFile
        /\ Readable(disk)
        /\ disk.version # mem[p].version)
       => /\ pc'[p] = "done"
          /\ res'[p] = [kind |-> "StateConflict", expected |-> mem[p].version,
                        actual |-> disk.version]
          /\ disk' = disk
          /\ tmp'[p] = NoFile]_vars

\* a save has been rejected with a conflict between two different versions
C3_Witness ==
  \E p \in Procs :
    /\ pc[p] = "done"
    /\ res[p].kind = "StateConflict"
    /\ res[p].expected # res[p].actual
    /\ DiskVersion(disk) = res[p].actual

\* C4: a save goes on to write only after it has read the on-disk version
\* and found it equal to the version it holds; a file that does not parse
\* is never overwritten.
C4_WriteOnlyAfterMatch ==
  [][\A p \in Procs :
       /\ (pc[p] = "save" /\ pc'[p] = "rename")
            => IF disk = NoFile THEN mem[p].version = 0
               ELSE Readable(disk) /\ disk.version = mem[p].version
       /\ (Renames(p) /\ disk = CorruptFile) => disk' = disk]_vars

\* C5: the target file changes only by the rename of a fully written temp
\* file, so it is always absent or complete, and every load, also one that
\* runs while another process saves, returns a whole store: the one on disk
\* at that moment.
C5_ReaderSeesWholeFile ==
  [][/\ disk' # disk =>
          \E q \in Procs : Renames(q) /\ disk' = tmp[q] /\ Readable(tmp[q])
     /\ \A p \in Procs :
          Loads(p) =>
            /\ disk = NoFile \/ (Readable(disk) /\ Serialize(Deserialize(disk)) = disk)
            /\ res'[p].kind # "SerdeError"
            /\ pc'[p] = "rm_git" => disk # NoFile /\ Serialize(mem'[p]) = disk
            /\ pc'[p] = "save" => mem'[p].version = DiskVersion(disk)]_vars

\* a process holds a store it loaded while another process was between
\* the check and the rename of its save
C5_Witness ==
  \E p \in Procs, q \in Procs :
    /\ p # q
    /\ cmd[p].raced
    /\ pc[p] \in {"save", "rm_git"}
    /\ pc[q] = "rename"

\* C6: after a successful add_review(r), a load followed by get_review
\* returns r, and the version is 1 greater than before the call.
C6_AddThenFind ==
  [][\A p \in Procs :
       (Renames(p) /\ cmd[p].op = "create")
       => LET l == LoadResult(disk')
          IN /\ l.ok
             /\ GetReview(l.state, cmd[p].review.pr_number) = Some(cmd[p].review)
             /\ l.state.version = DiskVersion(disk) + 1]_vars

\* an add_review has succeeded and the store on disk holds a record with
\* dependencies installed, env files copied and a port assigned
C6_Witness ==
  /\ pc[1] = "done"
  /\ cmd[1].op = "create"
  /\ res[1].kind = "Ok"
  /\ DiskVersion(disk) = res[1].version
  /\ \E i \in DOMAIN DiskReviews :
       /\ DiskReviews[i].deps_installed
       /\ DiskReviews[i].env_copied
       /\ DiskReviews[i].port # None

\* C7: the persisted store holds at most one record per identifier.
C7_OneRecordPerId ==
  disk # NoFile =>
    \A i \in DOMAIN DiskReviews, j \in DOMAIN DiskReviews :
      DiskReviews[i].pr_number = DiskReviews[j].pr_number => i = j

\* an add_review that found a record of its identifier has been persisted,
\* beside a record of another identifier
C7_Witness ==
  \E p \in Procs :
    /\ pc[p] = "done"
    /\ cmd[p].op = "create"
    /\ res[p].kind = "Ok"
    /\ res[p].replaced
    /\ DiskVersion(disk) = res[p].version
    /\ Len(DiskReviews) = 2

\* C8: no two records of the persisted store hold the same port.
C8_PortsUnique ==
  disk # NoFile =>
    \A i \in DOMAIN DiskReviews, j \in DOMAIN DiskReviews :
      (DiskReviews[i].port # None /\ DiskReviews[i].port = DiskReviews[j].port)
      => i = j

\* the persisted store holds two records that both have a port
C8_Witness ==
  /\ disk # NoFile
  /\ Len(DiskReviews) = 2
  /\ DiskReviews[1].port # None
  /\ DiskReviews[2].port # None

\* C9: assign_port never returns a port a record of the given State holds,
\* and every port it returns lies in [range_start, range_end].
C9_PortFreeAndInRange ==
  pout.ok =>
    /\ \A i \in DOMAIN pin.reviews : pin.reviews[i].port # Some(pout.port)
    /\ pin.first <= pout.port
    /\ pout.port <= pin.last

\* assign_port has skipped the first port of the range, which a record
\* holds, and returned a later one
C9_Witness ==
  /\ pout.ok
  /\ pout.port > pin.first
  /\ pin.first \notin pin.bound
  /\ \E i \in DOMAIN pin.reviews : pin.reviews[i].port = Some(pin.first)

\* C10: once add_worktree has succeeded, create ends with a record of its
\* identifier in the persisted store, also when a later step fails.
C10_WorktreeHasRecord ==
  [][\A p \in Procs :
       (/\ cmd[p].op = "create"
        /\ cmd[p].wtAdded
        /\ pc[p] # "done"
        /\ pc'[p] = "done")
       => LET l == LoadResult(disk')
          IN l.ok /\ GetReview(l.state, cmd[p].pr) # None]_vars

\* C11: a create with force on a target path that already exists removes
\* the old worktree and goes on to fetch and add the new one; it never ends
\* because of the path being there, so it never ends with the IoError of
\* the directory removal, and when the git removal worked it goes on
C11_ForcedCreateContinues ==
  [][\A p \in Procs :
       (pc[p] = "idle" /\ cmd'[p].op = "create" /\ cmd'[p].overwrite = "forced")
         => /\ res'[p].kind # "IoError"
            /\ wt' # wt => pc'[p] = "load"]_vars

\* C12: a create without force whose overwrite prompt is declined returns
\* WorktreeExists and changes nothing: worktrees, store file and temp
\* files are as before, and no worktree was added
C12_DeclinedChangesNothing ==
  [][\A p \in Procs :
       (pc[p] = "idle" /\ cmd'[p].op = "create" /\ cmd'[p].overwrite = "declined")
         => /\ pc'[p] = "done"
            /\ res'[p].kind = "WorktreeExists"
            /\ res'[p].path \in wt
            /\ wt' = wt /\ disk' = disk /\ tmp' = tmp
            /\ ~cmd'[p].wtAdded]_vars

\* C12 witness: a declined create has returned while its worktree is there
C12_Witness ==
  \E p \in Procs :
    /\ pc[p] = "done" /\ cmd[p].overwrite = "declined"
    /\ res[p].kind = "WorktreeExists" /\ res[p].path \in wt
    /\ disk # NoFile


\* C13: a failed or disabled dependency installation, env copy or port
\* assignment never ends create: whenever the store was loaded the sandbox
\* setup leads on to the save, with deps_installed, env_copied and port
\* true / true / Some(port) for exactly the steps that were enabled and
\* succeeded; and the save that follows, when it succeeds, returns Ok with
\* that record persisted
C13_SandboxBestEffort ==
  [][\A p \in Procs :
       /\ (pc[p] = "load" /\ cmd[p].op = "create" /\ pc'[p] # "load"
            /\ LoadResult(disk).ok)
           => /\ pc'[p] = "save"
              /\ LET r == cmd'[p].review
                     s == cmd'[p].setup
                 IN /\ r.deps_installed = (s.cfg.auto_install_deps /\ s.depsOk)
                    /\ r.env_copied = (s.cfg.copy_env_from_main /\ s.envOk)
                    /\ (r.port # None) = (s.cfg.port_enabled /\ s.portOk)
                    /\ r.port # None => r.port[1] \in PortRange
                    /\ GetReview(mem'[p], cmd[p].pr) = Some(r)
       /\ (Renames(p) /\ cmd[p].op = "create")
           => /\ res'[p].kind = "Ok"
              /\ GetReview(LoadResult(disk').state, cmd[p].pr) = Some(cmd[p].review)]_vars

\* C13 witness: a create whose three sandbox steps were all enabled and all
\* failed has returned Ok and its record is in the store with false, false
\* and no port
C13_Witness ==
  /\ pc[1] = "done" /\ cmd[1].op = "create" /\ res[1].kind = "Ok"
  /\ cmd[1].setup.ran
  /\ cmd[1].setup.cfg = [auto_install_deps |-> TRUE, copy_env_from_main |-> TRUE,
                         port_enabled |-> TRUE]
  /\ ~cmd[1].setup.depsOk /\ ~cmd[1].setup.envOk /\ ~cmd[1].setup.portOk
  /\ DiskVersion(disk) = res[1].version
  /\ Len(DiskReviews) = 1
  /\ ~DiskReviews[1].deps_installed /\ ~DiskReviews[1].env_copied
  /\ DiskReviews[1].port = None

\* C14: remove of an identifier that has no record in the loaded store
\* returns WorktreeNotFound of that identifier and changes nothing: no
\* worktree is removed and the store file and the temp files are as before;
\* remove goes on to the git removal only for an identifier with a record
C14_RemoveAbsentChangesNothing ==
  [][\A p \in Procs :
       (pc[p] = "idle" /\ cmd'[p].op = "remove")
         => LET st == LoadResult(disk).state
            IN \/ /\ pc'[p] = "rm_git"
                  /\ GetReview(st, cmd'[p].pr) # None
               \/ /\ pc'[p] = "done"
                  /\ res'[p].kind = "WorktreeNotFound"
                  /\ GetReview(st, res'[p].pr) = None
                  /\ wt' = wt /\ disk' = disk /\ tmp' = tmp]_vars

\* C14 witness: a remove has returned WorktreeNotFound for an identifier
\* whose worktree directory is there while the store holds another record
C14_Witness ==
  \E p \in Procs :
    /\ pc[p] = "done" /\ cmd[p].op = "remove"
    /\ res[p].kind = "WorktreeNotFound"
    /\ PathOf(res[p].pr) \in wt
    /\ Len(DiskReviews) = 1
    /\ DiskReviews[1].pr_number # res[p].pr

\* C15: when the git removal of the worktree fails, remove returns that
\* error with the store file (records and version), the temp files and the
\* worktrees unchanged; the record is dropped from the loaded store only
\* after the worktree is gone
C15_GitFailureKeepsRecord ==
  [][\A p \in Procs :
       pc[p] = "rm_git" /\ pc'[p] # "rm_git"
         => LET path == GetReview(mem[p], cmd[p].pr)[1].worktree_path
            IN \/ /\ pc'[p] = "save"
                  /\ path \notin wt'
                  /\ GetReview(mem'[p], cmd[p].pr) = None
               \/ /\ pc'[p] = "done"
                  /\ res'[p].kind = "GitError"
                  /\ wt' = wt /\ disk' = disk /\ tmp' = tmp]_vars

\* C15 witness: a remove has returned the git error while the record and
\* its worktree are still there
C15_Witness ==
  \E p \in Procs :
    /\ pc[p] = "done" /\ cmd[p].op = "remove"
    /\ res[p].kind = "GitError"
    /\ Len(DiskReviews) = 1
    /\ DiskReviews[1].worktree_path \in wt

\* C16: whenever remove has deleted the worktree of an identifier, the
\* record of that identifier is absent from the store file when remove
\* returns, also when the return is the conflict of a save that met the
\* write of another process
C16_NoOrphanedRecord ==
  [][\A p \in Procs :
       (cmd[p].op = "remove" /\ pc[p] \in {"save", "rename"} /\ pc'[p] = "done"
        /\ res'[p].kind # "IoError")
         => GetReview(LoadResult(disk').state, cmd[p].pr) = None]_vars

\* the validator has been called on the arguments in pin
Validated == pout # NoPortOut

\* where a path leads once it is created: symbolic links are followed
\* along the components that exist, the rest is appended as written
RECURSIVE Leads(_, _, _, _)
Leads(fs, cur, rest, hops) ==
  IF rest = <<>> THEN cur
  ELSE LET next == Append(cur, Head(rest))
       IN IF IsLink(fs, next) /\ hops > 0
            THEN Leads(fs, <<>>, LinkTarget(fs, next) \o Tail(rest), hops - 1)
          ELSE IF next \in fs.dirs THEN Leads(fs, next, Tail(rest), hops)
          ELSE cur \o rest

\* C17: the validator rejects every candidate path that has a ParentDir
\* component, whatever exists on the file system
C17_ParentDirRejected ==
  (Validated /\ HasParentDir(pin.path)) => ~pout.ok

\* C17 witness: a candidate with a ParentDir component was rejected although
\* it exists and resolves to a place under the base directory
C17_Witness ==
  /\ Validated /\ HasParentDir(pin.path) /\ ~pout.ok
  /\ Exists(pin.fs, pin.cwd, pin.path)
  /\ Exists(pin.fs, pin.cwd, pin.base)
  /\ IsPrefix(Canonicalize(pin.fs, pin.cwd, pin.base).comps,
              Canonicalize(pin.fs, pin.cwd, pin.path).comps)

\* C18: every path the validator accepts leads to the base directory or to
\* a place under it, whether the path exists, only its parent exists or
\* neither does, symbolic links among its ancestors included
C18_AcceptedUnderBase ==
  (Validated /\ pout.ok)
    => IsPrefix(Canonicalize(pin.fs, pin.cwd, pin.base).comps,
                Leads(pin.fs, IF pout.path.abs THEN <<>> ELSE pin.cwd,
                      pout.path.comps, MaxLinks))

\* C19: a relative candidate is resolved against the base directory before
\* the containment test: on a file system without links and with the base
\* directory in place, a relative candidate without ParentDir components is
\* accepted and the result is the base directory joined with the candidate
C19_RelativeJoinsBase ==
  (/\ Validated
   /\ ~pin.path.abs /\ pin.path.comps # <<>> /\ ~HasParentDir(pin.path)
   /\ pin.fs.links = {} /\ Exists(pin.fs, pin.cwd, pin.base))
    => /\ pout.ok
       /\ pout.path = Abs(pin.base.comps \o pin.path.comps)

\* C20: the validator accepts a candidate that is written under the base
\* directory when nothing of the candidate exists yet, the base directory
\* itself included (on a file system without links)
C20_AcceptsBeforeCreation ==
  (/\ Validated
   /\ pin.path.abs /\ ~HasParentDir(pin.path)
   /\ StartsWith(pin.path, pin.base) /\ pin.path # pin.base
   /\ pin.fs.links = {}
   /\ ~Exists(pin.fs, pin.cwd, pin.path))
    => pout.ok

\* C21: for every value of the hash, hash_branch_name returns an
\* identifier in the documented reserved range 90000 to 99999
C21_HashInReservedRange ==
  (pout # NoPortOut) => (ReservedFirst <= pout.pr /\ pout.pr <= ReservedLast)

\* C22: in every persisted store no two records with different
\* identifiers hold the same worktree path, for any sequence of creates
\* (template or custom path, with or without force) and removes
C22_PathsUnique ==
  disk # NoFile =>
    \A i, j \in DOMAIN DiskReviews :
      DiskReviews[i].worktree_path = DiskReviews[j].worktree_path => i = j

\* the findings of the structured stage and of the keyword stage on the
\* output of the call
StructuredFindings ==
  TryParseJson(pin.output, NewAnalysis(pin.agent)).analysis.findings

PatternFindings ==
  ParseWithPatterns(pin.output, NewAnalysis(pin.agent)).findings

\* C29: after parse_output the analysis has at least one finding and its
\* raw_output is the whole original output; when neither the structured
\* stage nor the keyword stage yields a finding it has exactly one finding,
\* of severity Info and category Other
C29_FallbackAndRawOutput ==
  pout # NoPortOut =>
    /\ Len(pout.analysis.findings) >= 1
    /\ pout.analysis.raw_output = Some(pin.output)
    /\ (StructuredFindings = <<>> /\ PatternFindings = <<>>) =>
         /\ Len(pout.analysis.findings) = 1
         /\ pout.analysis.findings[1].severity = "Info"
         /\ pout.analysis.findings[1].category = "Other"

C29_Witness ==
  /\ pout # NoPortOut
  /\ Len(pin.output) = MaxChunks
  /\ \E i \in DOMAIN pin.output : pin.output[i].kind = "object"
  /\ StructuredFindings = <<>>
  /\ PatternFindings = <<>>
  /\ pout.analysis.findings = <<FallbackFinding>>

\* C30: the stages are exclusive and in order: with a structured finding the
\* analysis holds exactly the structured findings; without one and with a
\* keyword finding it holds exactly the keyword findings; the fallback
\* finding is there only when both stages yield nothing
C30_StagesExclusive ==
  pout # NoPortOut =>
    /\ StructuredFindings # <<>> =>
         pout.analysis.findings = StructuredFindings
    /\ (StructuredFindings = <<>> /\ PatternFindings # <<>>) =>
         pout.analysis.findings = PatternFindings
    /\ (\E i \in DOMAIN pout.analysis.findings :
          pout.analysis.findings[i] = FallbackFinding) =>
         (StructuredFindings = <<>> /\ PatternFindings = <<>>)

C30_Witness ==
  /\ pout # NoPortOut
  /\ StructuredFindings # <<>>
  /\ PatternFindings # <<>>
  /\ pout.analysis.findings = StructuredFindings
  /\ Len(pout.analysis.findings) < Len(pin.output[Len(pin.output)].findings.items)

\* the analyses of the agents whose result is Ok, in the configured order
OkAnalyses ==
  LET F[i \in 0..Len(run.agents)] ==
        IF i = 0 THEN <<>>
        ELSE IF run.result[i] # None /\ run.result[i][1].kind = "Ok"
               THEN Append(F[i - 1], run.result[i][1].analysis)
               ELSE F[i - 1]
  IN F[Len(run.agents)]

IsTimeout(result) == result.kind = "Other" /\ result.message[1] = "timed out"

\* C23: with agents enabled, run_review returns Ok with exactly the
\* analyses of the agents that succeeded, whatever the outcomes: results
\* plus logged failures equal the number of agents, no agent is invoked
\* twice, and the call returns Ok even when every agent fails
C23_PartialFailureReturnsOk ==
  /\ \A i \in DOMAIN run.agents : run.invoked[i] <= 1
  /\ (run.phase = "returned" /\ run.enabled) =>
       /\ run.ret # None
       /\ run.ret[1] = OkAnalyses
       /\ Len(run.ret[1]) + Len(run.errors) = Len(run.agents)

C23_Witness ==
  /\ run.phase = "returned"
  /\ run.parallel
  /\ Len(run.agents) = MaxAgents
  /\ Len(run.ret[1]) = MaxAgents - 1
  /\ \E i \in DOMAIN run.agents : IsTimeout(run.result[i][1])
  /\ Len(run.errors) = 1

\* C24: once an agent's invocation has returned the timeout error, no
\* subprocess started for that agent is still running
C24_TimeoutKillsSubprocess ==
  \A i \in DOMAIN run.agents :
    (run.result[i] # None /\ IsTimeout(run.result[i][1])) =>
      run.child[i].state # "running"

\* C25: an invocation whose subprocess has not completed when the timeout
\* elapses yields an error that names the agent and the configured seconds
\* and yields no analysis; an invocation that has completed is never
\* reported as a timeout
C25_TimeoutError ==
  [][\A i \in DOMAIN run.agents :
       (run.task[i] = "waiting" /\ run'.task[i] = "finished") =>
         /\ run.child[i].state = "running" =>
              /\ run'.result[i] = Some([kind |-> "Other",
                     message |-> <<"timed out", run.agents[i], run.timeout>>])
              /\ run'.analyses = run.analyses
         /\ run.child[i].state = "exited" => ~IsTimeout(run'.result[i][1])]_vars

C25_Witness ==
  /\ run.phase = "returned"
  /\ run.timeout = ShortTimeout
  /\ \E i \in DOMAIN run.agents :
       /\ run.result[i] = Some(TimedOut(run.agents[i], ShortTimeout))
       /\ run.errors = <<[agent |-> run.agents[i],
                          error |-> TimedOut(run.agents[i], ShortTimeout)]>>
  /\ run.ret = Some(<<>>)

\* C26: an agent name other than claude, codex or gemini fails with a
\* configuration error, starts no subprocess, is not retried and
\* contributes no analysis
C26_UnknownAgent ==
  \A i \in DOMAIN run.agents :
    run.agents[i] \notin {"claude", "codex", "gemini"} =>
      /\ run.started[i] = 0
      /\ run.child[i] = NoChild
      /\ run.invoked[i] <= 1
      /\ run.task[i] = "finished" =>
           run.result[i] = Some([kind |-> "ConfigError",
                                 agent |-> run.agents[i]])
      /\ \A k \in DOMAIN run.analyses :
           run.analyses[k].agent # run.agents[i]

C26_Witness ==
  /\ run.phase = "returned"
  /\ Len(run.ret[1]) = 1
  /\ \E i \in DOMAIN run.agents :
       /\ run.agents[i] = "unknown"
       /\ run.task[i] = "finished"
       /\ run.invoked[i] = 1

\* C27: a subprocess that completes in time with a non-zero exit status
\* gives an AgentExecutionError with the agent's name, the captured stdout
\* and the captured stderr; the output is not parsed, no analysis is added
C27_NonZeroExit ==
  [][\A i \in DOMAIN run.agents :
       (/\ run.task[i] = "waiting"
        /\ run'.task[i] = "finished"
        /\ run.child[i].state = "exited"
        /\ ~run.child[i].output[1].success) =>
         /\ run'.result[i] =
              Some([kind |-> "AgentExecutionError", agent |-> run.agents[i],
                    stdout |-> run.child[i].output[1].stdout,
                    stderr |-> run.child[i].output[1].stderr])
         /\ run'.analyses = run.analyses]_vars

C27_Witness ==
  \E i \in DOMAIN run.agents :
    /\ run.result[i] # None
    /\ run.result[i][1].kind = "AgentExecutionError"
    /\ run.result[i][1].agent = "gemini"
    /\ run.result[i][1].stdout # <<>>
    /\ run.result[i][1].stderr = "rate limit"

\* C28: in sequential mode agent k+1 is not started before agent k has
\* returned a result, failed or timed out, and the analyses are in
\* invocation order
C28_SequentialOrder ==
  (run.phase \in {"sequential", "returned"} /\ run.enabled /\ ~run.parallel) =>
    /\ \A k \in DOMAIN run.agents :
         (k > 1 /\ run.task[k] # "unspawned") => run.result[k - 1] # None
    /\ run.analyses = OkAnalyses
    /\ run.phase = "returned" => run.ret = Some(OkAnalyses)

C28_Witness ==
  /\ run.phase = "returned"
  /\ ~run.parallel
  /\ Len(run.agents) = MaxAgents
  /\ Len(run.ret[1]) = MaxAgents
  /\ run.ret[1][1].agent # run.ret[1][MaxAgents].agent
  /\ run.ret[1][1].agent = run.agents[1]

\* the keyword groups in their fixed order, with the labels of each
KeywordGroups ==
  <<{"critical"}, {"security", "vulnerability"}, {"error", "bug"},
    {"warning"}, {"performance", "slow"}, {"suggestion", "improvement"}>>

GroupLabels ==
  <<<<"Critical", "Security">>, <<"High", "Security">>,
    <<"High", "CodeQuality">>, <<"Medium", "BestPractice">>,
    <<"Medium", "Performance">>, <<"Low", "BestPractice">>>>

EarliestGroup(words) ==
  CHOOSE k \in DOMAIN KeywordGroups :
    /\ KeywordGroups[k] \cap words # {}
    /\ \A j \in DOMAIN KeywordGroups :
         KeywordGroups[j] \cap words # {} => k <= j

\* the lines of the output that hold a keyword, in order
MatchingLines ==
  SelectSeq([i \in DOMAIN pin.output |-> i],
            LAMBDA i : LineWords(pin.output[i]) # {})

\* C31: when the keyword stage runs, each line with a keyword yields
\* exactly one finding, labelled by the earliest keyword group the line
\* matches, and lines without a keyword yield none
C31_EarliestGroupWins ==
  (pout # NoPortOut /\ StructuredFindings = <<>> /\ MatchingLines # <<>>) =>
    /\ Len(pout.analysis.findings) = Len(MatchingLines)
    /\ \A k \in DOMAIN MatchingLines :
         LET line == pin.output[MatchingLines[k]]
             f == pout.analysis.findings[k]
         IN /\ f.title = line
            /\ <<f.severity, f.category>> =
                 GroupLabels[EarliestGroup(LineWords(line))]

C31_Witness ==
  /\ pout # NoPortOut
  /\ Len(pin.output) = MaxChunks
  /\ pin.output[1] = [kind |-> "text", words |-> {"critical", "security"}]
  /\ pin.output[MaxChunks] = [kind |-> "text", words |-> {}]
  /\ Len(pout.analysis.findings) = 1
  /\ pout.analysis.findings[1].severity = "Critical"
  /\ pout.analysis.findings[1].category = "Security"

\* the record r is what a load makes of the record y of a file
LoadedWithDefaults(y, r) ==
  /\ r.pr_number = y.pr_number
  /\ r.branch = y.branch
  /\ r.worktree_path = y.worktree_path
  /\ r.port = (IF "port" \in DOMAIN y THEN <<y.port>> ELSE <<>>)
  /\ r.project_type =
       (IF "project_type" \in DOMAIN y THEN <<y.project_type>> ELSE <<>>)
  /\ r.deps_installed = ("deps_installed" \in DOMAIN y /\ y.deps_installed)
  /\ r.env_copied = ("env_copied" \in DOMAIN y /\ y.env_copied)
  /\ r.agent_analyses =
       (IF "agent_analyses" \in DOMAIN y THEN y.agent_analyses ELSE <<>>)

\* C32: a store file of an older format loads without error with the
\* defaults for the absent fields (version 0, deps_installed and env_copied
\* false, port and project_type none, agent_analyses empty), and the save
\* that follows the load of a file without version writes version 1
C32_OldFormatLoads ==
  [][\A p \in Procs :
       /\ Loads(p) =>
            /\ res'[p].kind # "SerdeError"
            /\ pc'[p] \in {"save", "rm_git"} =>
                 /\ "version" \notin DOMAIN disk => mem'[p].version = 0
                 /\ \A i \in DOMAIN disk.reviews :
                      \/ /\ cmd'[p].op = "create"
                         /\ disk.reviews[i].pr_number = cmd'[p].pr
                      \/ \E j \in DOMAIN mem'[p].reviews :
                           LoadedWithDefaults(disk.reviews[i],
                                              mem'[p].reviews[j])
       /\ (Renames(p) /\ "version" \notin DOMAIN disk) => disk'.version = 1]_vars

C32_Witness ==
  /\ res[1].kind = "Ok"
  /\ res[1].version = 1
  /\ disk.version = 1
  /\ Len(disk.reviews) = NumPRs
  /\ \E i \in DOMAIN disk.reviews :
       /\ "port" \notin DOMAIN disk.reviews[i]
       /\ ~disk.reviews[i].deps_installed
       /\ ~disk.reviews[i].env_copied

\* C33: a step of the tool deletes a worktree only under force or after
\* an affirmative confirmation, in cleanup and in create; a cleanup
\* without force whose confirmation is declined removes no worktree, leaves
\* the store unchanged and returns Ok
C33_DeleteOnlyWithConsent ==
  [][\A p \in Procs :
       /\ (pc'[p] # pc[p] /\ ~(wt \subseteq wt')) =>
            \/ cmd[p].op = "remove" /\ cmd[p].consent \in {"force", "confirmed"}
            \/ /\ cmd'[p].op = "create"
               /\ cmd'[p].overwrite \in {"forced", "confirmed"}
       /\ (pc[p] = "idle" /\ cmd'[p].consent = "declined") =>
            /\ wt' = wt
            /\ disk' = disk
            /\ tmp' = tmp
            /\ pc'[p] = "done"
            /\ res'[p].kind = "Ok"]_vars

\* the file f has a record of identifier i
HasRecord(f, i) ==
  /\ f # NoFile
  /\ Readable(f)
  /\ GetReview(Deserialize(f), i) # None

\* C34: the save of agent analyses does not bring back a record that a
\* remove has taken out of the store: a record that is in the store after
\* that save was in the store before it, or its worktree exists
C34_NoResurrection ==
  [][\A p \in Procs :
       (Renames(p) /\ cmd[p].op = "analyses") =>
         \A i \in PRs :
           HasRecord(disk', i) => (HasRecord(disk, i) \/ PathOf(i) \in wt)]_vars

\* the fields of a record other than agent_analyses
OtherFields(r) == [r EXCEPT !.agent_analyses = <<>>]

\* the record of identifier i in the file f, as an Option
DiskRecord(f, i) ==
  IF f # NoFile /\ Readable(f) THEN GetReview(Deserialize(f), i) ELSE None

\* C37: the save of an agent run changes the agent_analyses of its record
\* and nothing else: every record of the store before the save is in the
\* store after it with the same identifier, branch, path, port,
\* project_type, deps_installed and env_copied, the records of the other
\* identifiers with the same analyses as well; a run without analyses
\* starts no save
C37_OnlyAnalysesChange ==
  [][\A p \in Procs :
       /\ (Renames(p) /\ cmd[p].op = "analyses") =>
            \A i \in PRs :
              LET old == DiskRecord(disk, i)
                  new == DiskRecord(disk', i)
              IN old # None =>
                   /\ new # None
                   /\ OtherFields(new[1]) = OtherFields(old[1])
                   /\ i # cmd[p].review.pr_number => new = old
       /\ (pc[p] = "agents" /\ pc'[p] = "done") =>
            (disk' = disk /\ tmp' = tmp)]_vars

\* save returns to the caller that holds the State
SaveReturns(p) == pc[p] \in {"h_save", "h_rename"} /\ pc'[p] = "hold"

\* C35: when save returns, the version of the caller's State matches what
\* the save did: after Ok it is the version of the file, one more than
\* before the call; after StateConflict or an I/O error it is the version
\* before the call
C35_VersionMatchesSave ==
  [][\A p \in Procs :
       SaveReturns(p) =>
         IF res'[p].kind = "Ok"
           THEN /\ mem'[p].version = cmd[p].before + 1
                /\ mem'[p].version = DiskVersion(disk')
           ELSE mem'[p].version = cmd[p].before]_vars

\* C36: run_review terminates, in parallel and in sequential mode, also
\* when a subprocess never exits: it eventually returns, and every agent of
\* an enabled run has then ended with a result, an error or a timeout
C36_RunReviewTerminates ==
  <>(/\ run.phase = "returned"
     /\ run.enabled => \A i \in DOMAIN run.agents : run.result[i] # None)

\* a run has returned while the subprocess of an agent that timed out is
\* still running
C36_Witness ==
  /\ run.phase = "returned"
  /\ \E i \in DOMAIN run.agents :
       /\ run.child[i].state = "running"
       /\ run.result[i] # None
       /\ IsTimeout(run.result[i][1])

\* C38: list, status and agent-result write nothing: no step of theirs
\* changes the state file, a temp file or a directory, also when a record
\* whose directory is missing is found
C38_ReadsWriteNothing ==
  [][\A p \in Procs :
       (cmd'[p].op \in ReadOps /\ pc'[p] # pc[p] /\ pc'[p] \in {"read", "done"}) =>
         (disk' = disk /\ tmp' = tmp /\ wt' = wt)]_vars

\* a list has reported a record whose directory is missing, and the record
\* is still in the store
C38_Witness ==
  \E p \in Procs :
    /\ pc[p] = "done"
    /\ cmd[p].op = "list"
    /\ res[p].kind = "Ok"
    /\ \E i \in res[p].stale : HasRecord(disk, i) /\ PathOf(i) \notin wt

\* create has returned the error of its argument match or of the path
\* validation
CreateRejects(p) ==
  /\ pc[p] = "idle"
  /\ pc'[p] = "done"
  /\ cmd'[p].op = "create"
  /\ res'[p].kind \in {"InvalidInput", "ConfigError"}

\* C39: a create that returns InvalidInput or the configuration error of
\* the path validation has had no effect: no directory is removed or
\* added, no worktree-add has run, and neither the state file nor a temp
\* file is written
C39_NoEffectBeforeValidation ==
  [][\A p \in Procs :
       CreateRejects(p) =>
         /\ wt' = wt
         /\ disk' = disk
         /\ tmp' = tmp
         /\ ~cmd'[p].wtAdded
         /\ cmd'[p].overwrite = "none"]_vars

\* a create was rejected while a worktree and its record exist
C39_Witness ==
  \E p \in Procs :
    /\ pc[p] = "done"
    /\ cmd[p].op = "create"
    /\ res[p].kind \in {"InvalidInput", "ConfigError"}
    /\ \E i \in PRs : PathOf(i) \in wt /\ HasRecord(disk, i)

\* the ports of the range of the call that no record holds and that are
\* not bound locally
FreePorts ==
  {q \in pin.first..pin.last :
     /\ \A i \in DOMAIN pin.reviews : pin.reviews[i].port # Some(q)
     /\ q \notin pin.bound}

\* C40: assign_port returns the lowest port of the range that no record
\* holds and that is not bound, and NoAvailablePort with range_start and
\* range_end exactly when there is none; a second call on the same State
\* with the same ports bound returns the same
C40_LowestFreePort ==
  pout # NoPortOut =>
    /\ IF FreePorts = {}
         THEN /\ ~pout.ok
              /\ pout.error = "NoAvailablePort"
              /\ pout.range_start = pin.first
              /\ pout.range_end = pin.last
         ELSE /\ pout.ok
              /\ pout.port \in FreePorts
              /\ \A q \in FreePorts : pout.port <= q
    /\ "again" \in DOMAIN pout =>
         /\ pout.again.ok = pout.ok
         /\ pout.ok => pout.again.port = pout.port
         /\ ~pout.ok => pout.again = [f \in DOMAIN pout \ {"again"} |-> pout[f]]

\* two calls have returned the same port, the second of the range, the
\* first one being bound locally and held by no record
C40_Witness ==
  /\ pout # NoPortOut
  /\ "again" \in DOMAIN pout
  /\ pout.ok
  /\ pout.again.port = pout.port
  /\ pout.port > pin.first
  /\ pin.first \in pin.bound
  /\ \A i \in DOMAIN pin.reviews : pin.reviews[i].port # Some(pin.first)

====
